---- MODULE Spec2Model ----
(***************************************************************************)
(* Financial rules engine of return-to-work-cost: the childcare subsidy   *)
(* functions (src/utils/subsidyCalculations.ts), the cost aggregation     *)
(* (calculateTotalCosts, calculateTotalCostsWithWorkDays) and the tax     *)
(* functions (src/utils/taxCalculations.ts).                              *)
(*                                                                         *)
(* The library is a set of pure functions.  Each function is an operator   *)
(* that computes what the TypeScript computes; each action is one call of  *)
(* an exported function, which records its arguments and its result.      *)
(*                                                                         *)
(* Units.  The code works on JavaScript numbers; the model keeps every     *)
(* quantity exact in a fixed-point unit:                                   *)
(*   incomes                      whole dollars                            *)
(*   hourly rates and rate caps   cents per hour                           *)
(*   daysPerWeek                  tenths of a day                          *)
(*   hours per fortnight          tenths of an hour                        *)
(*   subsidyPerHour               1/10000 dollar (cents x percent)         *)
(*   fortnightly money amounts    1/100000 dollar                          *)
(*   tax amounts                  mills (1/1000 dollar)                    *)
(*   levy / after-tax amounts     cents plus a fraction (see Money)        *)
(***************************************************************************)
EXTENDS Integers, Sequences, FiniteSets, TLC

VARIABLES
    op,                          \* name of the function called last
    income,                      \* its income argument
    isSecondOrLater,             \* its isSecondOrLater argument
    activityHoursPerFortnight,   \* its activityHoursPerFortnight argument
    children,                    \* its children argument (Child[])
    childIndex,                  \* which child calculateChildSubsidy was given
    subsidisedHoursPerFortnight, \* ceiling argument of calculateTotalCostsWithWorkDays
    ret,                         \* what the call returned
    prev,                        \* the call before it, when it was a call of the same function
    args,                        \* the other arguments of a scenario, sweep or sharing call
    dataPoints,                  \* the sample sequence handed to a curve function
    url,                         \* the query string built by encodeStateToUrl
    costCalls                    \* the calls of calculateTotalCostsWithWorkDays that
                                 \* the last call made

vars == <<op, income, isSecondOrLater, activityHoursPerFortnight, children,
          childIndex, subsidisedHoursPerFortnight, ret, prev, args, dataPoints, url,
          costCalls>>

\* the variables the subsidy, cost and tax calls have no part in
otherArgs == <<args, dataPoints, url>>
NoArgs == [none |-> TRUE]

(***************************************************************************)
(* Bounds of the model.                                                    *)
(***************************************************************************)
MaxChildren == 2       \* longest children list
MaxSteps == 3          \* step boundaries sampled after each segment start
MaxGrid == 12          \* coarse income grid: 50000 * (0..MaxGrid)
MaxActivityHours == 60 \* activity hours sampled: 0..MaxActivityHours
MaxThousands == 40     \* fine income grid of the tax functions: 1000 * (0..MaxThousands)

(***************************************************************************)
(* Policy constants, subsidyCalculations.ts lines 16-46.                   *)
(***************************************************************************)
BASE_INCOME == 85279
BASE_SUBSIDY_PERCENT == 90
SECOND_CHILD_BASE_INCOME == 143273
SECOND_CHILD_SUBSIDY_PERCENT == 95
SECOND_CHILD_INCOME_STEP == 3000
SECOND_CHILD_FIRST_BRACKET_END == 188273
SECOND_CHILD_FLAT_80_END == 267563
SECOND_CHILD_SECOND_BRACKET_END == 357563
SECOND_CHILD_MIN_SUBSIDY_PERCENT == 50
INCOME_STEP == 5000
SUBSIDY_DECREASE_PER_STEP == 1
MAX_INCOME == 535279
HOURLY_RATE_CAP_UNDER_SCHOOL_AGE == 1463   \* 14.63 dollars, in cents
HOURLY_RATE_CAP_SCHOOL_AGE == 1281         \* 12.81 dollars, in cents
MIN_SUBSIDISED_HOURS == 72
MAX_SUBSIDISED_HOURS == 100
ACTIVITY_THRESHOLD_FOR_MAX_HOURS == 48

Max(a, b) == IF a >= b THEN a ELSE b
Min(a, b) == IF a <= b THEN a ELSE b

(***************************************************************************)
(* calculateSubsidyPercent, subsidyCalculations.ts lines 56-102.           *)
(* Math.floor of a non-negative quotient is \div.                          *)
(***************************************************************************)
calculateSubsidyPercent_noChain(inc, second) ==
    \* the second declining bracket restarts from 95 instead of 80
    IF second
    THEN IF inc <= SECOND_CHILD_BASE_INCOME THEN SECOND_CHILD_SUBSIDY_PERCENT
         ELSE IF inc <= SECOND_CHILD_FIRST_BRACKET_END
              THEN Max(80, SECOND_CHILD_SUBSIDY_PERCENT
                           - ((inc - SECOND_CHILD_BASE_INCOME) \div SECOND_CHILD_INCOME_STEP)
                             * SUBSIDY_DECREASE_PER_STEP)
         ELSE IF inc <= SECOND_CHILD_FLAT_80_END THEN 80
         ELSE IF inc <= SECOND_CHILD_SECOND_BRACKET_END
              THEN Max(SECOND_CHILD_MIN_SUBSIDY_PERCENT,
                       SECOND_CHILD_SUBSIDY_PERCENT
                           - ((inc - SECOND_CHILD_FLAT_80_END) \div SECOND_CHILD_INCOME_STEP)
                             * SUBSIDY_DECREASE_PER_STEP)
         ELSE SECOND_CHILD_MIN_SUBSIDY_PERCENT
    ELSE IF inc <= BASE_INCOME THEN BASE_SUBSIDY_PERCENT
         ELSE IF inc >= MAX_INCOME THEN 0
         ELSE Max(0, BASE_SUBSIDY_PERCENT
                     - ((inc - BASE_INCOME) \div INCOME_STEP) * SUBSIDY_DECREASE_PER_STEP)

calculateSubsidyPercent_sharedMax(inc, second) ==
    \* the priority schedule ends at MAX_INCOME like the standard one
    IF second
    THEN IF inc <= SECOND_CHILD_BASE_INCOME THEN SECOND_CHILD_SUBSIDY_PERCENT
         ELSE IF inc >= MAX_INCOME THEN 0
         ELSE IF inc <= SECOND_CHILD_FIRST_BRACKET_END
              THEN Max(80, SECOND_CHILD_SUBSIDY_PERCENT
                           - ((inc - SECOND_CHILD_BASE_INCOME) \div SECOND_CHILD_INCOME_STEP)
                             * SUBSIDY_DECREASE_PER_STEP)
         ELSE IF inc <= SECOND_CHILD_FLAT_80_END THEN 80
         ELSE IF inc <= SECOND_CHILD_SECOND_BRACKET_END
              THEN Max(SECOND_CHILD_MIN_SUBSIDY_PERCENT,
                       80 - ((inc - SECOND_CHILD_FLAT_80_END) \div SECOND_CHILD_INCOME_STEP)
                            * SUBSIDY_DECREASE_PER_STEP)
         ELSE SECOND_CHILD_MIN_SUBSIDY_PERCENT
    ELSE IF inc <= BASE_INCOME THEN BASE_SUBSIDY_PERCENT
         ELSE IF inc >= MAX_INCOME THEN 0
         ELSE Max(0, BASE_SUBSIDY_PERCENT
                     - ((inc - BASE_INCOME) \div INCOME_STEP) * SUBSIDY_DECREASE_PER_STEP)

calculateSubsidyPercent_ceilSteps(inc, second) ==
    \* the standard schedule counts a started $5,000 increment as a full step
    IF second
    THEN IF inc <= SECOND_CHILD_BASE_INCOME THEN SECOND_CHILD_SUBSIDY_PERCENT
         ELSE IF inc <= SECOND_CHILD_FIRST_BRACKET_END
              THEN Max(80, SECOND_CHILD_SUBSIDY_PERCENT
                           - ((inc - SECOND_CHILD_BASE_INCOME) \div SECOND_CHILD_INCOME_STEP)
                             * SUBSIDY_DECREASE_PER_STEP)
         ELSE IF inc <= SECOND_CHILD_FLAT_80_END THEN 80
         ELSE IF inc <= SECOND_CHILD_SECOND_BRACKET_END
              THEN Max(SECOND_CHILD_MIN_SUBSIDY_PERCENT,
                       80 - ((inc - SECOND_CHILD_FLAT_80_END) \div SECOND_CHILD_INCOME_STEP)
                            * SUBSIDY_DECREASE_PER_STEP)
         ELSE SECOND_CHILD_MIN_SUBSIDY_PERCENT
    ELSE IF inc <= BASE_INCOME THEN BASE_SUBSIDY_PERCENT
         ELSE IF inc >= MAX_INCOME THEN 0
         ELSE Max(0, BASE_SUBSIDY_PERCENT
                     - ((inc - BASE_INCOME + INCOME_STEP - 1) \div INCOME_STEP)
                       * SUBSIDY_DECREASE_PER_STEP)

calculateSubsidyPercent(inc, second) ==
    IF second
    THEN IF inc <= SECOND_CHILD_BASE_INCOME THEN SECOND_CHILD_SUBSIDY_PERCENT
         ELSE IF inc <= SECOND_CHILD_FIRST_BRACKET_END
              THEN LET incomeOverBase == inc - SECOND_CHILD_BASE_INCOME
                       steps == incomeOverBase \div SECOND_CHILD_INCOME_STEP
                       subsidyPercent == SECOND_CHILD_SUBSIDY_PERCENT
                                         - (steps * SUBSIDY_DECREASE_PER_STEP)
                   IN  Max(80, subsidyPercent)
         ELSE IF inc <= SECOND_CHILD_FLAT_80_END THEN 80
         ELSE IF inc <= SECOND_CHILD_SECOND_BRACKET_END
              THEN LET incomeOverBase == inc - SECOND_CHILD_FLAT_80_END
                       steps == incomeOverBase \div SECOND_CHILD_INCOME_STEP
                       subsidyPercent == 80 - (steps * SUBSIDY_DECREASE_PER_STEP)
                   IN  Max(SECOND_CHILD_MIN_SUBSIDY_PERCENT, subsidyPercent)
         ELSE SECOND_CHILD_MIN_SUBSIDY_PERCENT
    ELSE IF inc <= BASE_INCOME THEN BASE_SUBSIDY_PERCENT
         ELSE IF inc >= MAX_INCOME THEN 0
         ELSE LET incomeOverBase == inc - BASE_INCOME
                  steps == incomeOverBase \div INCOME_STEP
                  subsidyPercent == BASE_SUBSIDY_PERCENT - (steps * SUBSIDY_DECREASE_PER_STEP)
              IN  Max(0, subsidyPercent)

(***************************************************************************)
(* calculateSubsidisedHours, subsidyCalculations.ts lines 106-111.         *)
(* Argument and result in whole hours.                                     *)
(***************************************************************************)
calculateSubsidisedHours_strict(activityHours) ==
    \* > instead of >= at the threshold
    IF activityHours > ACTIVITY_THRESHOLD_FOR_MAX_HOURS
    THEN MAX_SUBSIDISED_HOURS
    ELSE MIN_SUBSIDISED_HOURS

calculateSubsidisedHours(activityHours) ==
    IF activityHours >= ACTIVITY_THRESHOLD_FOR_MAX_HOURS
    THEN MAX_SUBSIDISED_HOURS
    ELSE MIN_SUBSIDISED_HOURS

(***************************************************************************)
(* Inputs of the subsidy functions.                                        *)
(***************************************************************************)
\* start and step size of each declining segment
Segments == {<<BASE_INCOME, INCOME_STEP>>,
             <<SECOND_CHILD_BASE_INCOME, SECOND_CHILD_INCOME_STEP>>,
             <<SECOND_CHILD_FLAT_80_END, SECOND_CHILD_INCOME_STEP>>}
Thresholds == {BASE_INCOME, MAX_INCOME, SECOND_CHILD_BASE_INCOME,
               SECOND_CHILD_FIRST_BRACKET_END, SECOND_CHILD_FLAT_80_END,
               SECOND_CHILD_SECOND_BRACKET_END}

SubsidyIncomes ==
    {t + d : t \in Thresholds, d \in {-1, 0, 1}}
    \cup {seg[1] + seg[2] * k + d : seg \in Segments, k \in 1..MaxSteps, d \in {-1, 0}}
    \cup {50000 * k : k \in 0..MaxGrid}
    \cup {285278, 285279, 1000000}

ActivityHours == 0..MaxActivityHours

NoCall == [op |-> "none", income |-> 0, isSecondOrLater |-> FALSE, ret |-> 0]
ThisCall == [op |-> op, income |-> income, isSecondOrLater |-> isSecondOrLater, ret |-> ret]

Init ==
    /\ op = "none"
    /\ income = 0
    /\ isSecondOrLater = FALSE
    /\ activityHoursPerFortnight = 0
    /\ children = <<>>
    /\ childIndex = 0
    /\ subsidisedHoursPerFortnight = 0
    /\ ret = 0
    /\ prev = NoCall
    /\ args = NoArgs
    /\ dataPoints = <<>>
    /\ url = <<>>
    /\ costCalls = <<>>

CalculateSubsidyPercent ==
    \E inc \in SubsidyIncomes, second \in BOOLEAN :
        /\ op' = "calculateSubsidyPercent"
        /\ income' = inc
        /\ isSecondOrLater' = second
        /\ ret' = calculateSubsidyPercent(inc, second)
        /\ prev' = IF op = "calculateSubsidyPercent" THEN ThisCall ELSE NoCall
        /\ activityHoursPerFortnight' = 0
        /\ UNCHANGED <<children, childIndex, subsidisedHoursPerFortnight>>
        /\ UNCHANGED otherArgs
        /\ costCalls' = <<>>

CalculateSubsidisedHours ==
    \E a \in ActivityHours :
        /\ op' = "calculateSubsidisedHours"
        /\ activityHoursPerFortnight' = a
        /\ ret' = calculateSubsidisedHours(a)
        /\ prev' = NoCall
        /\ income' = 0
        /\ isSecondOrLater' = FALSE
        /\ UNCHANGED <<children, childIndex, subsidisedHoursPerFortnight>>
        /\ UNCHANGED otherArgs
        /\ costCalls' = <<>>

NextSubsidy == CalculateSubsidyPercent \/ CalculateSubsidisedHours

SpecSubsidy == Init /\ [][NextSubsidy]_vars

(***************************************************************************)
(* Child records (interface Child, subsidyCalculations.ts lines 48-54).    *)
(* hoursPerDay in hours, daysPerWeek in tenths of a day, hourlyRate in     *)
(* cents.  The schedules give 0, 80 and 110 hours per fortnight: no care,  *)
(* between the two ceilings, above both.  The rates lie below and above    *)
(* both rate caps.                                                         *)
(***************************************************************************)
Schedules == {<<8, 0>>, <<8, 50>>, <<11, 50>>}

ChildSet ==
    {[age |-> a, hoursPerDay |-> s[1], daysPerWeek |-> s[2],
      hourlyRate |-> r, isSecondOrLater |-> f] :
        a \in {"under-school", "school-age"}, s \in Schedules,
        r \in {1000, 2000}, f \in BOOLEAN}

ChildLists == UNION {[1..n -> ChildSet] : n \in 0..MaxChildren}

CostIncomes == {BASE_INCOME, 300000}
CostActivityHours == {30, ACTIVITY_THRESHOLD_FOR_MAX_HOURS}
\* ceilings handed to calculateTotalCostsWithWorkDays, in tenths of an hour
Ceilings == {10 * MIN_SUBSIDISED_HOURS, 902, 10 * MAX_SUBSIDISED_HOURS}

(***************************************************************************)
(* JavaScript division n / d, kept as the unreduced pair: d = 0 stands for *)
(* the NaN (n = 0) or Infinity (n # 0) the division yields.  Zero is the   *)
(* literal 0.                                                              *)
(***************************************************************************)
Div(n, d) == [num |-> n, den |-> d]
Zero == [num |-> 0, den |-> 1]

RECURSIVE SumSeq(_)
SumSeq(s) == IF s = <<>> THEN 0 ELSE s[1] + SumSeq(Tail(s))

(***************************************************************************)
(* calculateChildSubsidy, subsidyCalculations.ts lines 113-143.            *)
(* subsidisedHoursPerFortnight in tenths of an hour, subsidyPerHour in     *)
(* cents x percent = 1/10000 dollar.                                       *)
(***************************************************************************)
calculateChildSubsidy_noCap(child, inc, activityHours) ==
    \* the subsidy is taken on the rate charged, not on the capped rate
    LET subsidyPercent == calculateSubsidyPercent(inc, child.isSecondOrLater)
        hourlyRateCap == IF child.age = "under-school"
                         THEN HOURLY_RATE_CAP_UNDER_SCHOOL_AGE
                         ELSE HOURLY_RATE_CAP_SCHOOL_AGE
    IN  [subsidyPercent |-> subsidyPercent,
         hourlyRateCap |-> hourlyRateCap,
         subsidisedHoursPerFortnight |-> 10 * calculateSubsidisedHours(activityHours),
         subsidyPerHour |-> child.hourlyRate * subsidyPercent,
         hoursPerDay |-> child.hoursPerDay,
         daysPerWeek |-> child.daysPerWeek]

calculateChildSubsidy(child, inc, activityHours) ==
    LET subsidyPercent == calculateSubsidyPercent(inc, child.isSecondOrLater)
        hourlyRateCap == IF child.age = "under-school"
                         THEN HOURLY_RATE_CAP_UNDER_SCHOOL_AGE
                         ELSE HOURLY_RATE_CAP_SCHOOL_AGE
        subsidisedHours == 10 * calculateSubsidisedHours(activityHours)
        rateForSubsidy == Min(child.hourlyRate, hourlyRateCap)
        subsidyPerHour == rateForSubsidy * subsidyPercent
    IN  [subsidyPercent |-> subsidyPercent,
         hourlyRateCap |-> hourlyRateCap,
         subsidisedHoursPerFortnight |-> subsidisedHours,
         subsidyPerHour |-> subsidyPerHour,
         hoursPerDay |-> child.hoursPerDay,
         daysPerWeek |-> child.daysPerWeek]

(***************************************************************************)
(* The children.map callback of calculateTotalCosts, subsidyCalculations.ts*)
(* lines 152-175.  Hours in tenths of an hour; subsidyAmount, totalCost    *)
(* and outOfPocket in 1/100000 dollar (tenth-hours x cents x 100).         *)
(***************************************************************************)
childDetail_uncappedHours(child, inc, activityHours) ==
    \* subsidisedHours is the ceiling, not limited by the child's own hours
    LET details == calculateChildSubsidy(child, inc, activityHours)
        hoursPerFortnight == child.hoursPerDay * child.daysPerWeek * 2
        subsidisedHours == details.subsidisedHoursPerFortnight
        unsubsidisedHours == Max(0, hoursPerFortnight - subsidisedHours)
        subsidyAmount == subsidisedHours * details.subsidyPerHour
        totalCost == hoursPerFortnight * child.hourlyRate * 100
    IN  [subsidyPercent |-> details.subsidyPercent,
         hourlyRateCap |-> details.hourlyRateCap,
         subsidisedHoursPerFortnight |-> details.subsidisedHoursPerFortnight,
         subsidyPerHour |-> details.subsidyPerHour,
         hoursPerDay |-> details.hoursPerDay,
         daysPerWeek |-> details.daysPerWeek,
         subsidyAmount |-> subsidyAmount,
         totalCost |-> totalCost,
         outOfPocket |-> totalCost - subsidyAmount,
         subsidisedHours |-> subsidisedHours,
         unsubsidisedHours |-> unsubsidisedHours]

childDetail_cappedCost(child, inc, activityHours) ==
    \* totalCost is billed at the capped rate
    LET details == calculateChildSubsidy(child, inc, activityHours)
        hoursPerFortnight == child.hoursPerDay * child.daysPerWeek * 2
        subsidisedHours == Min(hoursPerFortnight, details.subsidisedHoursPerFortnight)
        unsubsidisedHours == Max(0, hoursPerFortnight - subsidisedHours)
        subsidyAmount == subsidisedHours * details.subsidyPerHour
        totalCost == hoursPerFortnight * Min(child.hourlyRate, details.hourlyRateCap) * 100
    IN  [subsidyPercent |-> details.subsidyPercent,
         hourlyRateCap |-> details.hourlyRateCap,
         subsidisedHoursPerFortnight |-> details.subsidisedHoursPerFortnight,
         subsidyPerHour |-> details.subsidyPerHour,
         hoursPerDay |-> details.hoursPerDay,
         daysPerWeek |-> details.daysPerWeek,
         subsidyAmount |-> subsidyAmount,
         totalCost |-> totalCost,
         outOfPocket |-> totalCost - subsidyAmount,
         subsidisedHours |-> subsidisedHours,
         unsubsidisedHours |-> unsubsidisedHours]

childDetail_ceilingSubsidy(child, inc, activityHours) ==
    \* the subsidy is paid on the whole ceiling, whatever hours the child attends
    LET details == calculateChildSubsidy(child, inc, activityHours)
        hoursPerFortnight == child.hoursPerDay * child.daysPerWeek * 2
        subsidisedHours == Min(hoursPerFortnight, details.subsidisedHoursPerFortnight)
        unsubsidisedHours == Max(0, hoursPerFortnight - subsidisedHours)
        subsidyAmount == details.subsidisedHoursPerFortnight * details.subsidyPerHour
        totalCost == hoursPerFortnight * child.hourlyRate * 100
        outOfPocket == totalCost - subsidyAmount
    IN  [subsidyPercent |-> details.subsidyPercent,
         hourlyRateCap |-> details.hourlyRateCap,
         subsidisedHoursPerFortnight |-> details.subsidisedHoursPerFortnight,
         subsidyPerHour |-> details.subsidyPerHour,
         hoursPerDay |-> details.hoursPerDay,
         daysPerWeek |-> details.daysPerWeek,
         subsidyAmount |-> subsidyAmount,
         totalCost |-> totalCost,
         outOfPocket |-> outOfPocket,
         subsidisedHours |-> subsidisedHours,
         unsubsidisedHours |-> unsubsidisedHours]

childDetail(child, inc, activityHours) ==
    LET details == calculateChildSubsidy(child, inc, activityHours)
        hoursPerFortnight == child.hoursPerDay * child.daysPerWeek * 2
        subsidisedHours == Min(hoursPerFortnight, details.subsidisedHoursPerFortnight)
        unsubsidisedHours == Max(0, hoursPerFortnight - subsidisedHours)
        subsidyAmount == subsidisedHours * details.subsidyPerHour
        totalCost == hoursPerFortnight * child.hourlyRate * 100
        outOfPocket == totalCost - subsidyAmount
    IN  [subsidyPercent |-> details.subsidyPercent,
         hourlyRateCap |-> details.hourlyRateCap,
         subsidisedHoursPerFortnight |-> details.subsidisedHoursPerFortnight,
         subsidyPerHour |-> details.subsidyPerHour,
         hoursPerDay |-> details.hoursPerDay,
         daysPerWeek |-> details.daysPerWeek,
         subsidyAmount |-> subsidyAmount,
         totalCost |-> totalCost,
         outOfPocket |-> outOfPocket,
         subsidisedHours |-> subsidisedHours,
         unsubsidisedHours |-> unsubsidisedHours]

(***************************************************************************)
(* calculateTotalCosts, subsidyCalculations.ts lines 145-190.              *)
(* childcarePerDay: 1/100000 dollar over tenths of a day.                  *)
(***************************************************************************)
calculateTotalCosts_noGuard(kids, inc, activityHours) ==
    \* the per-day division is performed whatever the number of days
    LET childDetails == [i \in 1..Len(kids) |-> childDetail(kids[i], inc, activityHours)]
        totalChildcareSubsidy ==
            SumSeq([i \in 1..Len(kids) |-> childDetails[i].subsidyAmount])
        totalChildcareCost ==
            SumSeq([i \in 1..Len(kids) |-> childDetails[i].totalCost])
        totalChildcareOutOfPocket == totalChildcareCost - totalChildcareSubsidy
        totalDaysPerFortnight ==
            SumSeq([i \in 1..Len(kids) |-> kids[i].daysPerWeek * 2])
    IN  [childDetails |-> childDetails,
         totalChildcareSubsidy |-> totalChildcareSubsidy,
         totalChildcareCost |-> totalChildcareCost,
         totalChildcareOutOfPocket |-> totalChildcareOutOfPocket,
         childcarePerDay |-> Div(totalChildcareOutOfPocket, totalDaysPerFortnight)]

calculateTotalCosts(kids, inc, activityHours) ==
    LET childDetails == [i \in 1..Len(kids) |-> childDetail(kids[i], inc, activityHours)]
        totalChildcareSubsidy ==
            SumSeq([i \in 1..Len(kids) |-> childDetails[i].subsidyAmount])
        totalChildcareCost ==
            SumSeq([i \in 1..Len(kids) |-> childDetails[i].totalCost])
        totalChildcareOutOfPocket == totalChildcareCost - totalChildcareSubsidy
        totalDaysPerFortnight ==
            SumSeq([i \in 1..Len(kids) |-> kids[i].daysPerWeek * 2])
        childcarePerDay ==
            IF totalDaysPerFortnight > 0
            THEN Div(totalChildcareOutOfPocket, totalDaysPerFortnight)
            ELSE Zero
    IN  [childDetails |-> childDetails,
         totalChildcareSubsidy |-> totalChildcareSubsidy,
         totalChildcareCost |-> totalChildcareCost,
         totalChildcareOutOfPocket |-> totalChildcareOutOfPocket,
         childcarePerDay |-> childcarePerDay]

(***************************************************************************)
(* calculateTotalCostsWithWorkDays, part_007 lines 21-65, and its          *)
(* children.map callback, lines 28-51.  The ceiling is the caller's, in    *)
(* tenths of an hour; calculateChildSubsidy is called with 0 activity      *)
(* hours.                                                                  *)
(***************************************************************************)
childDetailWithWorkDays_cappedCost(child, inc, ceiling) ==
    \* totalCost is billed at the rate the subsidy is taken on
    LET details == calculateChildSubsidy(child, inc, 0)
        hoursPerFortnight == child.hoursPerDay * child.daysPerWeek * 2
        subsidisedHours == Min(hoursPerFortnight, ceiling)
        unsubsidisedHours == Max(0, hoursPerFortnight - subsidisedHours)
        subsidyAmount == subsidisedHours * details.subsidyPerHour
        totalCost == hoursPerFortnight * Min(child.hourlyRate, details.hourlyRateCap) * 100
        outOfPocket == totalCost - subsidyAmount
    IN  [subsidyPercent |-> details.subsidyPercent,
         hourlyRateCap |-> details.hourlyRateCap,
         subsidisedHoursPerFortnight |-> details.subsidisedHoursPerFortnight,
         subsidyPerHour |-> details.subsidyPerHour,
         hoursPerDay |-> details.hoursPerDay,
         daysPerWeek |-> details.daysPerWeek,
         subsidyAmount |-> subsidyAmount,
         totalCost |-> totalCost,
         outOfPocket |-> outOfPocket,
         subsidisedHours |-> subsidisedHours,
         unsubsidisedHours |-> unsubsidisedHours]

childDetailWithWorkDays(child, inc, ceiling) ==
    LET details == calculateChildSubsidy(child, inc, 0)
        hoursPerFortnight == child.hoursPerDay * child.daysPerWeek * 2
        subsidisedHours == Min(hoursPerFortnight, ceiling)
        unsubsidisedHours == Max(0, hoursPerFortnight - subsidisedHours)
        subsidyAmount == subsidisedHours * details.subsidyPerHour
        totalCost == hoursPerFortnight * child.hourlyRate * 100
        outOfPocket == totalCost - subsidyAmount
    IN  [subsidyPercent |-> details.subsidyPercent,
         hourlyRateCap |-> details.hourlyRateCap,
         subsidisedHoursPerFortnight |-> details.subsidisedHoursPerFortnight,
         subsidyPerHour |-> details.subsidyPerHour,
         hoursPerDay |-> details.hoursPerDay,
         daysPerWeek |-> details.daysPerWeek,
         subsidyAmount |-> subsidyAmount,
         totalCost |-> totalCost,
         outOfPocket |-> outOfPocket,
         subsidisedHours |-> subsidisedHours,
         unsubsidisedHours |-> unsubsidisedHours]

calculateTotalCostsWithWorkDays(kids, inc, ceiling) ==
    LET childDetails ==
            [i \in 1..Len(kids) |-> childDetailWithWorkDays(kids[i], inc, ceiling)]
        totalChildcareSubsidy ==
            SumSeq([i \in 1..Len(kids) |-> childDetails[i].subsidyAmount])
        totalChildcareCost ==
            SumSeq([i \in 1..Len(kids) |-> childDetails[i].totalCost])
        totalChildcareOutOfPocket == totalChildcareCost - totalChildcareSubsidy
        totalDaysPerFortnight ==
            SumSeq([i \in 1..Len(kids) |-> kids[i].daysPerWeek * 2])
        childcarePerDay ==
            IF totalDaysPerFortnight > 0
            THEN Div(totalChildcareOutOfPocket, totalDaysPerFortnight)
            ELSE Zero
    IN  [childDetails |-> childDetails,
         totalChildcareSubsidy |-> totalChildcareSubsidy,
         totalChildcareCost |-> totalChildcareCost,
         totalChildcareOutOfPocket |-> totalChildcareOutOfPocket,
         childcarePerDay |-> childcarePerDay]

(***************************************************************************)
(* Calls of the cost functions.  The scenario (children, income, activity  *)
(* hours, work-day ceiling) is fixed when the behaviour starts; each       *)
(* action is one call on it.                                               *)
(***************************************************************************)
InitCosts ==
    /\ op = "none"
    /\ income \in CostIncomes
    /\ isSecondOrLater = FALSE
    /\ activityHoursPerFortnight \in CostActivityHours
    /\ children \in ChildLists
    /\ childIndex = 0
    /\ subsidisedHoursPerFortnight \in Ceilings
    /\ ret = 0
    /\ prev = NoCall
    /\ args = NoArgs
    /\ dataPoints = <<>>
    /\ url = <<>>
    /\ costCalls = <<>>

CalculateChildSubsidy ==
    \E i \in 1..Len(children) :
        /\ op' = "calculateChildSubsidy"
        /\ childIndex' = i
        /\ ret' = calculateChildSubsidy(children[i], income, activityHoursPerFortnight)
        /\ UNCHANGED <<income, isSecondOrLater, activityHoursPerFortnight, children,
                       subsidisedHoursPerFortnight, prev>>
        /\ UNCHANGED otherArgs
        /\ costCalls' = <<>>

CalculateTotalCosts ==
    /\ op' = "calculateTotalCosts"
    /\ childIndex' = 0
    /\ ret' = calculateTotalCosts(children, income, activityHoursPerFortnight)
    /\ UNCHANGED <<income, isSecondOrLater, activityHoursPerFortnight, children,
                   subsidisedHoursPerFortnight, prev>>
    /\ UNCHANGED otherArgs
    /\ costCalls' = <<>>

CalculateTotalCostsWithWorkDays ==
    /\ op' = "calculateTotalCostsWithWorkDays"
    /\ childIndex' = 0
    /\ ret' = calculateTotalCostsWithWorkDays(children, income, subsidisedHoursPerFortnight)
    /\ UNCHANGED <<income, isSecondOrLater, activityHoursPerFortnight, children,
                   subsidisedHoursPerFortnight, prev>>
    /\ UNCHANGED otherArgs
    /\ costCalls' = <<>>

NextCosts ==
    \/ CalculateChildSubsidy
    \/ CalculateTotalCosts
    \/ CalculateTotalCostsWithWorkDays

SpecCosts == InitCosts /\ [][NextCosts]_vars


(***************************************************************************)
(* Money with a fractional part: c whole cents plus f / FracDen of a cent, *)
(* 0 <= f < FracDen.  FracDen = 10 x the shade-in range, so that both the  *)
(* mills of the tax and the levy's quotient by the shade-in range are      *)
(* exact.                                                                  *)
(***************************************************************************)
SINGLE_THRESHOLD == 24276
SINGLE_SHADE_IN_END == 30345
FracDen == 10 * (SINGLE_SHADE_IN_END - SINGLE_THRESHOLD)

FromDollars(d) == [c |-> 100 * d, f |-> 0]
FromMills(m) == [c |-> m \div 10, f |-> (m % 10) * (FracDen \div 10)]
MAdd(a, b) ==
    IF a.f + b.f < FracDen
    THEN [c |-> a.c + b.c, f |-> a.f + b.f]
    ELSE [c |-> a.c + b.c + 1, f |-> a.f + b.f - FracDen]
MSub(a, b) ==
    IF a.f >= b.f
    THEN [c |-> a.c - b.c, f |-> a.f - b.f]
    ELSE [c |-> a.c - b.c - 1, f |-> a.f + FracDen - b.f]

(***************************************************************************)
(* calculateLowIncomeTaxOffset, taxCalculations.ts lines 65-76, in mills.  *)
(***************************************************************************)
calculateLowIncomeTaxOffset(inc) ==
    IF inc <= 37000 THEN 700000
    ELSE IF inc <= 45000 THEN 700000 - 50 * (inc - 37000)
    ELSE IF inc <= 66667 THEN 325000 - 15 * (inc - 45000)
    ELSE 0

(***************************************************************************)
(* calculateIncomeTax, taxCalculations.ts lines 1-33, in mills.            *)
(***************************************************************************)
calculateIncomeTax_noFloor(inc) ==
    \* the offset is subtracted without the floor at zero
    IF inc <= 18200 THEN 0
    ELSE LET first == Min(inc - 18200, 26800) * 160
             second == IF inc > 45000 THEN Min(inc - 45000, 90000) * 300 ELSE 0
             third == IF inc > 135000 THEN Min(inc - 135000, 55000) * 370 ELSE 0
             fourth == IF inc > 190000 THEN (inc - 190000) * 450 ELSE 0
         IN  first + second + third + fourth - calculateLowIncomeTaxOffset(inc)

calculateIncomeTax(inc) ==
    IF inc <= 18200 THEN 0
    ELSE LET firstBracket == Min(inc - 18200, 26800)
             tax1 == firstBracket * 160
             tax2 == IF inc > 45000
                     THEN tax1 + Min(inc - 45000, 90000) * 300
                     ELSE tax1
             tax3 == IF inc > 135000
                     THEN tax2 + Min(inc - 135000, 55000) * 370
                     ELSE tax2
             tax == IF inc > 190000
                    THEN tax3 + (inc - 190000) * 450
                    ELSE tax3
             lito == calculateLowIncomeTaxOffset(inc)
         IN  Max(0, tax - lito)

(***************************************************************************)
(* calculateMedicareLevy, taxCalculations.ts lines 35-57.                  *)
(* income x (excess / shadeInRange) x 0.02 dollars is                      *)
(* income x excess x 2 / shadeInRange cents.                               *)
(***************************************************************************)
calculateMedicareLevy_cliff(inc) ==
    \* no shade-in: the full 2% from the first dollar above the threshold
    IF inc <= SINGLE_THRESHOLD THEN FromDollars(0)
    ELSE [c |-> inc * 2, f |-> 0]

calculateMedicareLevy(inc) ==
    IF inc <= SINGLE_THRESHOLD THEN FromDollars(0)
    ELSE IF inc <= SINGLE_SHADE_IN_END
         THEN LET excess == inc - SINGLE_THRESHOLD
                  shadeInRange == SINGLE_SHADE_IN_END - SINGLE_THRESHOLD
                  n == inc * excess * 2
              IN  [c |-> n \div shadeInRange, f |-> (n % shadeInRange) * 10]
         ELSE [c |-> inc * 2, f |-> 0]

(***************************************************************************)
(* calculateAfterTaxIncome, taxCalculations.ts lines 59-63.                *)
(***************************************************************************)
calculateAfterTaxIncome_noLevy(inc) ==
    \* income less income tax only
    MSub(FromDollars(inc), FromMills(calculateIncomeTax(inc)))

calculateAfterTaxIncome(inc) ==
    LET incomeTax == calculateIncomeTax(inc)
        medicareLevy == calculateMedicareLevy(inc)
    IN  MSub(MSub(FromDollars(inc), FromMills(incomeTax)), medicareLevy)

(***************************************************************************)
(* Calls of the tax functions.                                             *)
(***************************************************************************)
TaxThresholds == {18200, 22575, SINGLE_THRESHOLD, SINGLE_SHADE_IN_END,
                  37000, 45000, 66667, 135000, 190000}

TaxIncomes ==
    {t + d : t \in TaxThresholds, d \in {-1, 0, 1}}
    \cup {50000 * k : k \in 0..MaxGrid}
    \cup {1000 * k : k \in 0..MaxThousands}
    \cup {49301}

CalculateIncomeTax ==
    \E inc \in TaxIncomes :
        /\ op' = "calculateIncomeTax"
        /\ income' = inc
        /\ ret' = calculateIncomeTax(inc)
        /\ prev' = IF op = "calculateIncomeTax" THEN ThisCall ELSE NoCall
        /\ UNCHANGED <<isSecondOrLater, activityHoursPerFortnight, children,
                       childIndex, subsidisedHoursPerFortnight>>
        /\ UNCHANGED otherArgs
        /\ costCalls' = <<>>

CalculateAfterTaxIncome ==
    \E inc \in TaxIncomes :
        /\ op' = "calculateAfterTaxIncome"
        /\ income' = inc
        /\ ret' = calculateAfterTaxIncome(inc)
        /\ prev' = IF op = "calculateAfterTaxIncome" THEN ThisCall ELSE NoCall
        /\ UNCHANGED <<isSecondOrLater, activityHoursPerFortnight, children,
                       childIndex, subsidisedHoursPerFortnight>>
        /\ UNCHANGED otherArgs
        /\ costCalls' = <<>>

NextTax == CalculateIncomeTax \/ CalculateAfterTaxIncome

SpecTax == Init /\ [][NextTax]_vars

(***************************************************************************)
(* Net amounts: c whole cents plus f / NetDen of a cent, 0 <= f < NetDen   *)
(* (negative amounts have a negative c).  NetDen = 100 x FracDen holds the *)
(* 1/1000 cent of the fortnightly cost unit as well as the fractions of    *)
(* the levy.                                                               *)
(***************************************************************************)
NetDen == 100 * FracDen
NetZero == [c |-> 0, f |-> 0]
ToNet(m) == [c |-> m.c, f |-> m.f * 100]
NetFromDollars(d) == [c |-> 100 * d, f |-> 0]
\* k times an amount of u units of 1/100000 dollar (1/1000 cent)
NetTimesUnits(k, u) ==
    LET whole == u \div 1000
        rest == k * (u % 1000)
    IN  [c |-> k * whole + rest \div 1000, f |-> (rest % 1000) * (NetDen \div 1000)]
NAdd(a, b) ==
    IF a.f + b.f < NetDen
    THEN [c |-> a.c + b.c, f |-> a.f + b.f]
    ELSE [c |-> a.c + b.c + 1, f |-> a.f + b.f - NetDen]
NSub(a, b) ==
    IF a.f >= b.f
    THEN [c |-> a.c - b.c, f |-> a.f - b.f]
    ELSE [c |-> a.c - b.c - 1, f |-> a.f + NetDen - b.f]
NLess(a, b) == a.c < b.c \/ (a.c = b.c /\ a.f < b.f)
NLeq(a, b) == a = b \/ NLess(a, b)

(***************************************************************************)
(* calculateSecondParentScenario, advocacyCalculator (part_003) lines      *)
(* 40-93.  secondParentHoursPerFortnight is optional: [present, value].    *)
(* Annual amounts are net amounts; effectiveHourlyRate is the quotient of  *)
(* a net amount by a number of hours; percentageOfIncomeLost is the        *)
(* quotient (gross - net) / gross, to be read times 100.                   *)
(***************************************************************************)
Undefined == [present |-> FALSE, value |-> 0]
Some(v) == [present |-> TRUE, value |-> v]

calculateSecondParentScenario_ownIncome(scenario) ==
    \* the subsidy is assessed on the second parent's income alone
    LET costs == calculateTotalCosts(scenario.children, scenario.secondParentIncome,
                                     scenario.activityHoursPerFortnight)
        secondParentAfterTax == ToNet(calculateAfterTaxIncome(scenario.secondParentIncome))
        childcareOutOfPocketAnnual == NetTimesUnits(26, costs.totalChildcareOutOfPocket)
        netIncomeAfterChildcare == NSub(secondParentAfterTax, childcareOutOfPocketAnnual)
        hoursPerFortnightForRate ==
            IF scenario.secondParentHoursPerFortnight.present
            THEN scenario.secondParentHoursPerFortnight.value
            ELSE scenario.activityHoursPerFortnight
        annualWorkingHours == hoursPerFortnightForRate * 26
    IN  [secondParentGrossIncome |-> scenario.secondParentIncome,
         secondParentAfterTax |-> secondParentAfterTax,
         childcareCosts |->
            [totalAnnual |-> NetTimesUnits(26, costs.totalChildcareCost),
             totalSubsidy |-> NetTimesUnits(26, costs.totalChildcareSubsidy),
             outOfPocketAnnual |-> childcareOutOfPocketAnnual,
             outOfPocketPerDay |-> costs.childcarePerDay,
             childDetails |->
                [i \in 1..Len(costs.childDetails) |->
                    [subsidyPercent |-> costs.childDetails[i].subsidyPercent,
                     subsidyAmount |-> NetTimesUnits(26, costs.childDetails[i].subsidyAmount),
                     totalCost |-> NetTimesUnits(26, costs.childDetails[i].totalCost),
                     outOfPocket |-> NetTimesUnits(26, costs.childDetails[i].outOfPocket),
                     isSecondOrLater |-> scenario.children[i].isSecondOrLater,
                     subsidisedHours |-> costs.childDetails[i].subsidisedHours,
                     unsubsidisedHours |-> costs.childDetails[i].unsubsidisedHours,
                     hoursPerDay |-> costs.childDetails[i].hoursPerDay,
                     daysPerWeek |-> costs.childDetails[i].daysPerWeek]]],
         netIncomeAfterChildcare |-> netIncomeAfterChildcare,
         effectiveHourlyRate |->
            IF annualWorkingHours > 0
            THEN Div(netIncomeAfterChildcare, annualWorkingHours)
            ELSE Div(NetZero, 1),
         percentageOfIncomeLost |->
            Div(NSub(NetFromDollars(scenario.secondParentIncome), netIncomeAfterChildcare),
                scenario.secondParentIncome)]

calculateSecondParentScenario_orHours(scenario) ==
    \* || in place of ??: supplied hours of 0 fall back to the activity hours
    LET combinedIncome == scenario.firstParentIncome + scenario.secondParentIncome
        costs == calculateTotalCosts(scenario.children, combinedIncome,
                                     scenario.activityHoursPerFortnight)
        secondParentAfterTax == ToNet(calculateAfterTaxIncome(scenario.secondParentIncome))
        childcareOutOfPocketAnnual == NetTimesUnits(26, costs.totalChildcareOutOfPocket)
        netIncomeAfterChildcare == NSub(secondParentAfterTax, childcareOutOfPocketAnnual)
        hoursPerFortnightForRate ==
            IF scenario.secondParentHoursPerFortnight.present
               /\ scenario.secondParentHoursPerFortnight.value # 0
            THEN scenario.secondParentHoursPerFortnight.value
            ELSE scenario.activityHoursPerFortnight
        annualWorkingHours == hoursPerFortnightForRate * 26
    IN  [secondParentGrossIncome |-> scenario.secondParentIncome,
         secondParentAfterTax |-> secondParentAfterTax,
         childcareCosts |->
            [totalAnnual |-> NetTimesUnits(26, costs.totalChildcareCost),
             totalSubsidy |-> NetTimesUnits(26, costs.totalChildcareSubsidy),
             outOfPocketAnnual |-> childcareOutOfPocketAnnual,
             outOfPocketPerDay |-> costs.childcarePerDay,
             childDetails |->
                [i \in 1..Len(costs.childDetails) |->
                    [subsidyPercent |-> costs.childDetails[i].subsidyPercent,
                     subsidyAmount |-> NetTimesUnits(26, costs.childDetails[i].subsidyAmount),
                     totalCost |-> NetTimesUnits(26, costs.childDetails[i].totalCost),
                     outOfPocket |-> NetTimesUnits(26, costs.childDetails[i].outOfPocket),
                     isSecondOrLater |-> scenario.children[i].isSecondOrLater,
                     subsidisedHours |-> costs.childDetails[i].subsidisedHours,
                     unsubsidisedHours |-> costs.childDetails[i].unsubsidisedHours,
                     hoursPerDay |-> costs.childDetails[i].hoursPerDay,
                     daysPerWeek |-> costs.childDetails[i].daysPerWeek]]],
         netIncomeAfterChildcare |-> netIncomeAfterChildcare,
         effectiveHourlyRate |->
            IF annualWorkingHours > 0
            THEN Div(netIncomeAfterChildcare, annualWorkingHours)
            ELSE Div(NetZero, 1),
         percentageOfIncomeLost |->
            Div(NSub(NetFromDollars(scenario.secondParentIncome), netIncomeAfterChildcare),
                scenario.secondParentIncome)]

calculateSecondParentScenario(scenario) ==
    LET combinedIncome == scenario.firstParentIncome + scenario.secondParentIncome
        costs == calculateTotalCosts(scenario.children, combinedIncome,
                                     scenario.activityHoursPerFortnight)
        secondParentAfterTax == ToNet(calculateAfterTaxIncome(scenario.secondParentIncome))
        childcareOutOfPocketAnnual == NetTimesUnits(26, costs.totalChildcareOutOfPocket)
        netIncomeAfterChildcare == NSub(secondParentAfterTax, childcareOutOfPocketAnnual)
        hoursPerFortnightForRate ==
            IF scenario.secondParentHoursPerFortnight.present
            THEN scenario.secondParentHoursPerFortnight.value
            ELSE scenario.activityHoursPerFortnight
        annualWorkingHours == hoursPerFortnightForRate * 26
        effectiveHourlyRate ==
            IF annualWorkingHours > 0
            THEN Div(netIncomeAfterChildcare, annualWorkingHours)
            ELSE Div(NetZero, 1)
        percentageOfIncomeLost ==
            Div(NSub(NetFromDollars(scenario.secondParentIncome), netIncomeAfterChildcare),
                scenario.secondParentIncome)
    IN  [secondParentGrossIncome |-> scenario.secondParentIncome,
         secondParentAfterTax |-> secondParentAfterTax,
         childcareCosts |->
            [totalAnnual |-> NetTimesUnits(26, costs.totalChildcareCost),
             totalSubsidy |-> NetTimesUnits(26, costs.totalChildcareSubsidy),
             outOfPocketAnnual |-> childcareOutOfPocketAnnual,
             outOfPocketPerDay |-> costs.childcarePerDay,
             childDetails |->
                [i \in 1..Len(costs.childDetails) |->
                    [subsidyPercent |-> costs.childDetails[i].subsidyPercent,
                     subsidyAmount |-> NetTimesUnits(26, costs.childDetails[i].subsidyAmount),
                     totalCost |-> NetTimesUnits(26, costs.childDetails[i].totalCost),
                     outOfPocket |-> NetTimesUnits(26, costs.childDetails[i].outOfPocket),
                     isSecondOrLater |-> scenario.children[i].isSecondOrLater,
                     subsidisedHours |-> costs.childDetails[i].subsidisedHours,
                     unsubsidisedHours |-> costs.childDetails[i].unsubsidisedHours,
                     hoursPerDay |-> costs.childDetails[i].hoursPerDay,
                     daysPerWeek |-> costs.childDetails[i].daysPerWeek]]],
         netIncomeAfterChildcare |-> netIncomeAfterChildcare,
         effectiveHourlyRate |-> effectiveHourlyRate,
         percentageOfIncomeLost |-> percentageOfIncomeLost]

(***************************************************************************)
(* Calls of calculateSecondParentScenario.  The scenario is fixed when the *)
(* behaviour starts.                                                       *)
(***************************************************************************)
ScenarioChildSet ==
    {ch \in ChildSet : ch.age = "under-school" /\ ch.hourlyRate = 2000}
ScenarioChildLists == UNION {[1..n -> ScenarioChildSet] : n \in 0..MaxChildren}
ScenarioArgs ==
    [firstParentIncome : {0, 90000},
     secondParentIncome : {0, 80000},
     secondParentHoursPerFortnight : {Undefined, Some(0), Some(45)}]

InitScenario ==
    /\ op = "none"
    /\ income = 0
    /\ isSecondOrLater = FALSE
    /\ activityHoursPerFortnight \in {0, 80}
    /\ children \in ScenarioChildLists
    /\ childIndex = 0
    /\ subsidisedHoursPerFortnight = 0
    /\ ret = 0
    /\ prev = NoCall
    /\ args \in ScenarioArgs
    /\ dataPoints = <<>>
    /\ url = <<>>
    /\ costCalls = <<>>

CalculateSecondParentScenario ==
    /\ "secondParentHoursPerFortnight" \in DOMAIN args
    /\ op' = "calculateSecondParentScenario"
    /\ ret' = calculateSecondParentScenario(
                 [secondParentIncome |-> args.secondParentIncome,
                  firstParentIncome |-> args.firstParentIncome,
                  children |-> children,
                  activityHoursPerFortnight |-> activityHoursPerFortnight,
                  secondParentHoursPerFortnight |-> args.secondParentHoursPerFortnight])
    /\ UNCHANGED <<income, isSecondOrLater, activityHoursPerFortnight, children,
                   childIndex, subsidisedHoursPerFortnight, prev>>
    /\ UNCHANGED otherArgs
    /\ costCalls' = <<>>

NextScenario == CalculateSecondParentScenario

SpecScenario == InitScenario /\ [][NextScenario]_vars

(***************************************************************************)
(* The samplers: calculateGraphData (graphData.ts lines 16-44) and         *)
(* calculateHoursGraphData (hoursGraphData, part_007 lines 67-136).        *)
(* Incomes are whole dollars, hours per week and days per week are tenths, *)
(* netIncome, afterTax and childcareCost are net amounts.  step > 0: with  *)
(* step <= 0 the loop of calculateGraphData does not end.                  *)
(***************************************************************************)
calculateGraphData(firstParentIncome, kids, activityHours, minIncome, maxIncome, step, isSingleParent) ==
    LET point(secondParentIncome) ==
            LET incomeForSubsidy ==
                    IF isSingleParent THEN secondParentIncome
                    ELSE firstParentIncome + secondParentIncome
                costs == calculateTotalCosts(kids, incomeForSubsidy, activityHours)
                afterTax == ToNet(calculateAfterTaxIncome(secondParentIncome))
                childcareOutOfPocketAnnual ==
                    NetTimesUnits(26, costs.totalChildcareOutOfPocket)
            IN  [grossIncome |-> secondParentIncome,
                 netIncome |-> NSub(afterTax, childcareOutOfPocketAnnual),
                 afterTax |-> afterTax,
                 childcareCost |-> childcareOutOfPocketAnnual]
        RECURSIVE loop(_, _)
        loop(secondParentIncome, acc) ==
            IF secondParentIncome <= maxIncome
            THEN loop(secondParentIncome + step, Append(acc, point(secondParentIncome)))
            ELSE acc
    IN  loop(minIncome, <<>>)

\* Math.round((hoursPerWeek / 7.6) * 10) / 10, both sides in tenths
calculateDaysPerWeekFromHours(hoursPerWeek) == (hoursPerWeek * 20 + 76) \div 152

\* children.map(child => ({...child, daysPerWeek})): the new array, and the
\* array of the caller after the map
childrenMap_inPlace(kids, daysPerWeek) ==
    \* the override is written into the caller's records
    [copies |-> [i \in 1..Len(kids) |-> [kids[i] EXCEPT !.daysPerWeek = daysPerWeek]],
     originals |-> [i \in 1..Len(kids) |-> [kids[i] EXCEPT !.daysPerWeek = daysPerWeek]]]

childrenMap(kids, daysPerWeek) ==
    [copies |-> [i \in 1..Len(kids) |-> [kids[i] EXCEPT !.daysPerWeek = daysPerWeek]],
     originals |-> kids]

\* Math.min(Math.max(daysPerWeek * 22, MIN_SUBSIDISED_HOURS), MAX_SUBSIDISED_HOURS),
\* days and hours in tenths
subsidisedHoursFromWorkDays_unclamped(daysPerWeek) ==
    \* 22 hours per day worked, without the two ceilings
    daysPerWeek * 22

subsidisedHoursFromWorkDays(daysPerWeek) ==
    Min(Max(daysPerWeek * 22, MIN_SUBSIDISED_HOURS * 10), MAX_SUBSIDISED_HOURS * 10)

\* the data points returned, the children array of the caller on return, and
\* the arguments of the call of calculateTotalCostsWithWorkDays of each sample
calculateHoursGraphData(fullTimeIncome, fullTimeHoursPerWeek, firstParentIncome, kids, familyType, maxHours) ==
    LET hourlyRate ==
            IF fullTimeHoursPerWeek > 0
            THEN fullTimeIncome \div (fullTimeHoursPerWeek * 52)
            ELSE 0
        maxHoursForGraph ==
            IF maxHours.present /\ maxHours.value # 0
            THEN ((maxHours.value + 4) \div 5) * 5
            ELSE 380
        \* the caller's array when the iteration at hoursPerWeek starts: as the
        \* map of the iteration before left it (a map writes daysPerWeek only)
        callersAt(hoursPerWeek) ==
            IF hoursPerWeek = 0 THEN kids
            ELSE childrenMap(kids, calculateDaysPerWeekFromHours(hoursPerWeek - 5)).originals
        \* the arguments the iteration at hoursPerWeek hands to the cost call
        costCall(hoursPerWeek) ==
            LET grossIncome == (hourlyRate * hoursPerWeek * 52) \div 10
                daysPerWeek == calculateDaysPerWeekFromHours(hoursPerWeek)
            IN  [children |-> childrenMap(callersAt(hoursPerWeek), daysPerWeek).copies,
                 income |-> IF familyType = "single-parent" THEN grossIncome
                            ELSE firstParentIncome + grossIncome,
                 subsidisedHoursPerFortnight |-> subsidisedHoursFromWorkDays(daysPerWeek)]
        \* the data point pushed by the iteration at hoursPerWeek after that call
        point(hoursPerWeek) ==
            LET grossIncome == (hourlyRate * hoursPerWeek * 52) \div 10
                daysPerWeek == calculateDaysPerWeekFromHours(hoursPerWeek)
                childrenForScenario ==
                    childrenMap(callersAt(hoursPerWeek), daysPerWeek).copies
                incomeForSubsidy ==
                    IF familyType = "single-parent" THEN grossIncome
                    ELSE firstParentIncome + grossIncome
                subsidisedHoursPerFortnightFromWorkDays ==
                    subsidisedHoursFromWorkDays(daysPerWeek)
                costs == calculateTotalCostsWithWorkDays(
                            childrenForScenario, incomeForSubsidy,
                            subsidisedHoursPerFortnightFromWorkDays)
                afterTax == ToNet(calculateAfterTaxIncome(grossIncome))
                childcareOutOfPocketAnnual ==
                    NetTimesUnits(26, costs.totalChildcareOutOfPocket)
            IN  [hoursPerWeek |-> hoursPerWeek,
                 daysPerWeek |-> daysPerWeek,
                 netIncome |-> NSub(afterTax, childcareOutOfPocketAnnual),
                 grossIncome |-> grossIncome,
                 afterTax |-> afterTax,
                 childcareCost |-> childcareOutOfPocketAnnual]
        \* hoursPerWeek = 0, 0.5, ... while hoursPerWeek <= maxHoursForGraph
        iterations == maxHoursForGraph \div 5 + 1
    IN  [dataPoints |-> [i \in 1..iterations |-> point(5 * (i - 1))],
         children |-> callersAt(5 * iterations),
         costCalls |-> [i \in 1..iterations |-> costCall(5 * (i - 1))]]

(***************************************************************************)
(* Calls of the samplers and of the two aggregators on one children array. *)
(* The hourly rate of the swept incomes is a whole number of dollars.      *)
(***************************************************************************)
GraphChildSet ==
    {ch \in ChildSet :
        /\ ch.hourlyRate = 2000
        /\ \/ ch.age = "under-school" /\ ch.hoursPerDay = 8
              /\ ch.daysPerWeek = 50 /\ ~ch.isSecondOrLater
           \/ ch.age = "school-age" /\ ch.hoursPerDay = 11 /\ ch.isSecondOrLater}
GraphChildLists == UNION {[1..n -> GraphChildSet] : n \in 0..MaxChildren}
GraphArgs ==
    [firstParentIncome : {90000},
     activityHoursPerFortnight : {80},
     minIncome : {0, 50000},
     maxIncome : {40000, 60000},
     step : {10000, 25000},
     isSingleParent : BOOLEAN]
HoursGraphArgs ==
    [fullTimeIncome : {98800},
     fullTimeHoursPerWeek : {0, 38},
     firstParentIncome : {90000},
     familyType : {"two-parent", "single-parent"},
     maxHours : {Some(12), Some(30)}]
    \cup [fullTimeIncome : {98800},
          fullTimeHoursPerWeek : {38},
          firstParentIncome : {90000},
          familyType : {"two-parent"},
          maxHours : {Undefined, Some(0)}]

InitGraph ==
    /\ op = "none"
    /\ income = BASE_INCOME
    /\ isSecondOrLater = FALSE
    /\ activityHoursPerFortnight = 80
    /\ children \in GraphChildLists
    /\ childIndex = 0
    /\ subsidisedHoursPerFortnight = MIN_SUBSIDISED_HOURS * 10
    /\ ret = 0
    /\ prev = NoCall
    /\ args = NoArgs
    /\ dataPoints = <<>>
    /\ url = <<>>
    /\ costCalls = <<>>

CalculateGraphData ==
    \E a \in GraphArgs :
        /\ op' = "calculateGraphData"
        /\ args' = a
        /\ ret' = calculateGraphData(a.firstParentIncome, children,
                                     a.activityHoursPerFortnight, a.minIncome,
                                     a.maxIncome, a.step, a.isSingleParent)
        /\ UNCHANGED <<income, isSecondOrLater, activityHoursPerFortnight, children,
                       childIndex, subsidisedHoursPerFortnight, prev, dataPoints, url>>
        /\ costCalls' = <<>>

CalculateHoursGraphData ==
    \E a \in HoursGraphArgs :
        \E r \in {calculateHoursGraphData(a.fullTimeIncome, a.fullTimeHoursPerWeek,
                                          a.firstParentIncome, children, a.familyType,
                                          a.maxHours)} :
            /\ op' = "calculateHoursGraphData"
            /\ args' = a
            /\ ret' = r.dataPoints
            /\ children' = r.children
            /\ costCalls' = r.costCalls
            /\ UNCHANGED <<income, isSecondOrLater, activityHoursPerFortnight,
                           childIndex, subsidisedHoursPerFortnight, prev, dataPoints, url>>

NextGraph ==
    \/ CalculateGraphData
    \/ CalculateHoursGraphData
    \/ CalculateTotalCosts
    \/ CalculateTotalCostsWithWorkDays

SpecGraph == InitGraph /\ [][NextGraph]_vars

(***************************************************************************)
(* calculateAfterTaxIncome (taxCalculations.ts lines 1-76) at an income    *)
(* given in tenths of a dollar, as the minimum-wage reference needs it     *)
(* (24.95 x 76 x 26 = 49301.2).  Tax and offset are in 1/10000 dollar, the *)
(* levy and the result are net amounts.                                    *)
(***************************************************************************)
NetFromHundredths(u) == [c |-> u \div 100, f |-> (u % 100) * (NetDen \div 100)]
NNeg(a) == IF a.f = 0 THEN [c |-> 0 - a.c, f |-> 0]
           ELSE [c |-> 0 - a.c - 1, f |-> NetDen - a.f]
NAbs(a) == IF a.c < 0 THEN NNeg(a) ELSE a

calculateLowIncomeTaxOffsetAt(g) ==
    IF g <= 370000 THEN 7000000
    ELSE IF g <= 450000 THEN 7000000 - 50 * (g - 370000)
    ELSE IF g <= 666670 THEN 3250000 - 15 * (g - 450000)
    ELSE 0

calculateIncomeTaxAt(g) ==
    IF g <= 182000 THEN 0
    ELSE LET firstBracket == Min(g - 182000, 268000)
             tax1 == firstBracket * 160
             tax2 == IF g > 450000
                     THEN tax1 + Min(g - 450000, 900000) * 300
                     ELSE tax1
             tax3 == IF g > 1350000
                     THEN tax2 + Min(g - 1350000, 550000) * 370
                     ELSE tax2
             tax == IF g > 1900000
                    THEN tax3 + (g - 1900000) * 450
                    ELSE tax3
             lito == calculateLowIncomeTaxOffsetAt(g)
         IN  Max(0, tax - lito)

\* income x (excess / shadeInRange) x 0.02 dollars is g x excess / (50 x
\* shadeInRange) cents for g and excess in tenths of a dollar; the product is
\* taken in two parts to stay within 32 bits
calculateMedicareLevyAt(g) ==
    IF g <= 10 * SINGLE_THRESHOLD THEN NetZero
    ELSE IF g <= 10 * SINGLE_SHADE_IN_END
         THEN LET excess == g - 10 * SINGLE_THRESHOLD
                  d == 50 * (SINGLE_SHADE_IN_END - SINGLE_THRESHOLD)
                  high == g * (excess \div 1000)
                  low == (high % d) * 1000 + g * (excess % 1000)
              IN  [c |-> (high \div d) * 1000 + low \div d,
                   f |-> (low % d) * (NetDen \div d)]
         ELSE [c |-> (2 * g) \div 10, f |-> ((2 * g) % 10) * (NetDen \div 10)]

calculateAfterTaxIncomeAt(g) ==
    LET incomeTax == calculateIncomeTaxAt(g)
        medicareLevy == calculateMedicareLevyAt(g)
    IN  NSub(NSub([c |-> 10 * g, f |-> 0], NetFromHundredths(incomeTax)), medicareLevy)

(***************************************************************************)
(* The curve analyzers of graphData.ts and hoursGraphData (part_007).      *)
(* A sample has the six fields of HoursGraphDataPoint (a GraphDataPoint is *)
(* its four-field part).  An interpolated number lo + span x num / den is  *)
(* kept as the record of its four parts; num and den are net amounts.      *)
(* Null is the null result.                                                *)
(***************************************************************************)
Null == [null |-> TRUE]
Interp(lo, span, num, den) == [lo |-> lo, span |-> span, num |-> num, den |-> den]
Exactly(x) == Interp(x, 0, NetZero, NetFromDollars(1))

\* in cents
AUSTRALIAN_MINIMUM_WAGE_PER_HOUR == 2495

findBreakEvenPoint_upOnly(points) ==
    \* only the crossing from non-positive to positive is looked for
    LET RECURSIVE scan(_)
        scan(i) ==
            IF i > Len(points) - 1 THEN Null
            ELSE LET current == points[i]
                     next == points[i + 1]
                 IN  IF NLeq(current.netIncome, NetZero) /\ NLess(NetZero, next.netIncome)
                     THEN [income |->
                              Interp(current.grossIncome,
                                     next.grossIncome - current.grossIncome,
                                     NAbs(current.netIncome),
                                     NAdd(NAbs(current.netIncome), NAbs(next.netIncome))),
                           netIncome |-> NetZero]
                     ELSE scan(i + 1)
    IN  scan(1)

findBreakEvenPoint(points) ==
    LET RECURSIVE scan(_)
        scan(i) ==
            IF i > Len(points) - 1 THEN Null
            ELSE LET current == points[i]
                     next == points[i + 1]
                     ratioNum == NAbs(current.netIncome)
                     ratioDen == NAdd(NAbs(current.netIncome), NAbs(next.netIncome))
                     breakEvenIncome ==
                         Interp(current.grossIncome,
                                next.grossIncome - current.grossIncome, ratioNum, ratioDen)
                 IN  IF NLeq(NetZero, current.netIncome) /\ NLess(next.netIncome, NetZero)
                     THEN [income |-> breakEvenIncome, netIncome |-> NetZero]
                     ELSE IF NLeq(current.netIncome, NetZero)
                             /\ NLess(NetZero, next.netIncome)
                     THEN [income |-> breakEvenIncome, netIncome |-> NetZero]
                     ELSE scan(i + 1)
    IN  scan(1)

\* calculateAfterTaxIncome(24.95 x (hoursPerFortnight ?? 76) x 26)
minimumWageAfterTaxForHours(hoursPerFortnight) ==
    LET actualHoursPerFortnight ==
            IF hoursPerFortnight.present THEN hoursPerFortnight.value ELSE 76
        annualHours == actualHoursPerFortnight * 26
        minimumWageGrossAnnual == (AUSTRALIAN_MINIMUM_WAGE_PER_HOUR * annualHours) \div 10
    IN  calculateAfterTaxIncomeAt(minimumWageGrossAnnual)

\* points.reduce((prev, curr) => curr.netIncome < prev.netIncome ? curr : prev)
lowestNetPoint(points) ==
    LET RECURSIVE from(_, _)
        from(i, acc) ==
            IF i > Len(points) THEN acc
            ELSE from(i + 1, IF NLess(points[i].netIncome, acc.netIncome)
                             THEN points[i] ELSE acc)
    IN  from(2, points[1])

\* points.reduce((prev, curr) => curr.netIncome > prev.netIncome ? curr : prev)
highestNetPoint(points) ==
    LET RECURSIVE from(_, _)
        from(i, acc) ==
            IF i > Len(points) THEN acc
            ELSE from(i + 1, IF NLess(acc.netIncome, points[i].netIncome)
                             THEN points[i] ELSE acc)
    IN  from(2, points[1])

findMinimumWageEquivalentPoint_nullOutside(points, hoursPerFortnight) ==
    \* a reference outside the range of the samples gives null
    LET w == minimumWageAfterTaxForHours(hoursPerFortnight)
        RECURSIVE scan(_)
        scan(i) ==
            IF i > Len(points) - 1 THEN Null
            ELSE LET current == points[i]
                     next == points[i + 1]
                 IN  IF NLeq(current.netIncome, w) /\ NLeq(w, next.netIncome)
                     THEN [income |->
                              Interp(current.grossIncome,
                                     next.grossIncome - current.grossIncome,
                                     NSub(w, current.netIncome),
                                     NSub(next.netIncome, current.netIncome)),
                           netIncome |-> w]
                     ELSE IF NLeq(w, current.netIncome) /\ NLeq(next.netIncome, w)
                     THEN [income |->
                              Interp(next.grossIncome,
                                     current.grossIncome - next.grossIncome,
                                     NSub(w, next.netIncome),
                                     NSub(current.netIncome, next.netIncome)),
                           netIncome |-> w]
                     ELSE scan(i + 1)
    IN  scan(1)

findMinimumWageEquivalentPoint(points, hoursPerFortnight) ==
    LET minimumWageAfterTax == minimumWageAfterTaxForHours(hoursPerFortnight)
        lowestPoint == lowestNetPoint(points)
        highestPoint == highestNetPoint(points)
        minNetIncome == lowestPoint.netIncome
        maxNetIncome == highestPoint.netIncome
        RECURSIVE closest(_, _)
        closest(i, closestPoint) ==
            IF i > Len(points) THEN closestPoint
            ELSE closest(i + 1,
                         IF NLess(NAbs(NSub(points[i].netIncome, minimumWageAfterTax)),
                                  NAbs(NSub(closestPoint.netIncome, minimumWageAfterTax)))
                         THEN points[i] ELSE closestPoint)
        RECURSIVE scan(_)
        scan(i) ==
            IF i > Len(points) - 1
            THEN LET closestPoint == closest(1, points[1])
                 IN  [income |-> Exactly(closestPoint.grossIncome),
                      netIncome |-> closestPoint.netIncome]
            ELSE LET current == points[i]
                     next == points[i + 1]
                 IN  IF NLeq(current.netIncome, minimumWageAfterTax)
                        /\ NLeq(minimumWageAfterTax, next.netIncome)
                     THEN [income |->
                              Interp(current.grossIncome,
                                     next.grossIncome - current.grossIncome,
                                     NSub(minimumWageAfterTax, current.netIncome),
                                     NSub(next.netIncome, current.netIncome)),
                           netIncome |-> minimumWageAfterTax]
                     ELSE IF NLeq(minimumWageAfterTax, current.netIncome)
                             /\ NLeq(next.netIncome, minimumWageAfterTax)
                     THEN [income |->
                              Interp(next.grossIncome,
                                     current.grossIncome - next.grossIncome,
                                     NSub(minimumWageAfterTax, next.netIncome),
                                     NSub(current.netIncome, next.netIncome)),
                           netIncome |-> minimumWageAfterTax]
                     ELSE scan(i + 1)
    IN  IF Len(points) = 0 THEN Null
        ELSE IF NLess(minimumWageAfterTax, minNetIncome)
        THEN [income |-> Exactly(lowestPoint.grossIncome),
              netIncome |-> lowestPoint.netIncome]
        ELSE IF NLess(maxNetIncome, minimumWageAfterTax)
        THEN [income |-> Exactly(highestPoint.grossIncome),
              netIncome |-> highestPoint.netIncome]
        ELSE scan(1)

findPointForIncome(points, targetIncome) ==
    LET RECURSIVE scan(_)
        scan(i) ==
            IF i > Len(points) - 1 THEN Null
            ELSE LET current == points[i]
                     next == points[i + 1]
                     num == NetFromDollars(targetIncome - current.grossIncome)
                     den == NetFromDollars(next.grossIncome - current.grossIncome)
                 IN  IF current.grossIncome <= targetIncome
                        /\ next.grossIncome >= targetIncome
                     THEN IF current.grossIncome = targetIncome THEN current
                          ELSE IF next.grossIncome = targetIncome THEN next
                          ELSE [grossIncome |-> targetIncome,
                                netIncome |->
                                    Interp(current.netIncome,
                                           NSub(next.netIncome, current.netIncome),
                                           num, den),
                                afterTax |->
                                    Interp(current.afterTax,
                                           NSub(next.afterTax, current.afterTax),
                                           num, den),
                                childcareCost |->
                                    Interp(current.childcareCost,
                                           NSub(next.childcareCost, current.childcareCost),
                                           num, den)]
                     ELSE scan(i + 1)
    IN  IF Len(points) = 0 THEN Null ELSE scan(1)

\* hours per week in tenths; the ratio of two differences of hours is the
\* ratio of the same numbers read as dollars
findPointForHours(points, targetHours) ==
    LET RECURSIVE scan(_)
        scan(i) ==
            IF i > Len(points) - 1 THEN Null
            ELSE LET current == points[i]
                     next == points[i + 1]
                     num == NetFromDollars(targetHours - current.hoursPerWeek)
                     den == NetFromDollars(next.hoursPerWeek - current.hoursPerWeek)
                 IN  IF current.hoursPerWeek <= targetHours
                        /\ next.hoursPerWeek >= targetHours
                     THEN IF current.hoursPerWeek = targetHours THEN current
                          ELSE IF next.hoursPerWeek = targetHours THEN next
                          ELSE [hoursPerWeek |-> targetHours,
                                daysPerWeek |-> calculateDaysPerWeekFromHours(targetHours),
                                netIncome |->
                                    Interp(current.netIncome,
                                           NSub(next.netIncome, current.netIncome),
                                           num, den),
                                grossIncome |->
                                    Interp(current.grossIncome,
                                           next.grossIncome - current.grossIncome,
                                           num, den),
                                afterTax |->
                                    Interp(current.afterTax,
                                           NSub(next.afterTax, current.afterTax),
                                           num, den),
                                childcareCost |->
                                    Interp(current.childcareCost,
                                           NSub(next.childcareCost, current.childcareCost),
                                           num, den)]
                     ELSE scan(i + 1)
    IN  IF Len(points) = 0 THEN Null ELSE scan(1)

findMaxIncomePoint_latest(points) ==
    \* >= in place of >: the latest of the samples at the maximum
    IF Len(points) = 0 THEN Null
    ELSE LET RECURSIVE from(_, _)
             from(i, acc) ==
                 IF i > Len(points) THEN acc
                 ELSE from(i + 1, IF NLeq(acc.netIncome, points[i].netIncome)
                                  THEN points[i] ELSE acc)
         IN  from(2, points[1])

findMaxIncomePoint(points) ==
    IF Len(points) = 0 THEN Null
    ELSE highestNetPoint(points)

(***************************************************************************)
(* The hours-sweep analyzers of hoursGraphData (part_007).  An interpolated*)
(* number of hours lo + span x num / den has 0 <= num <= den, 0 < den and  *)
(* span >= 0 wherever it is compared, so it lies in lo .. lo + span.       *)
(***************************************************************************)
\* k times a net amount, k an integer of either sign
NTimes(k, a) == [c |-> k * a.c + (k * a.f) \div NetDen, f |-> (k * a.f) % NetDen]

\* lo + span x num / den < k, for hours in tenths
InterpLess(x, k) ==
    IF x.lo + x.span < k THEN TRUE
    ELSE IF x.lo >= k THEN FALSE
    ELSE NLess(NTimes(x.span, x.num), NTimes(k - x.lo, x.den))

\* lo + span x num / den <= k
InterpLeq(x, k) ==
    IF x.lo + x.span <= k THEN TRUE
    ELSE IF x.lo > k THEN FALSE
    ELSE NLeq(NTimes(x.span, x.num), NTimes(k - x.lo, x.den))

\* calculateDaysPerWeekFromHours (part_007 lines 14-17) of an interpolated
\* number of hours x: the d with (152 d - 76) / 20 <= x < (152 d + 76) / 20
calculateDaysPerWeekFromInterp(x) ==
    LET a == 20 * x.lo + 76
        b == 20 * x.span
    IN  CHOOSE d \in (a \div 152)..((a + b) \div 152) :
            /\ NLeq(NTimes(152 * d - a, x.den), NTimes(b, x.num))
            /\ NLess(NTimes(b, x.num), NTimes(152 * (d + 1) - a, x.den))

\* part_007 lines 138-170; 0.5 hours is 5 tenths
findBreakEvenHours(points) ==
    LET RECURSIVE scan(_)
        scan(i) ==
            IF i > Len(points) - 1 THEN Null
            ELSE LET current == points[i]
                     next == points[i + 1]
                     num == NAbs(current.netIncome)
                     den == NAdd(NAbs(current.netIncome), next.netIncome)
                     breakEvenHours ==
                         Interp(current.hoursPerWeek,
                                next.hoursPerWeek - current.hoursPerWeek, num, den)
                 IN  IF NLeq(current.netIncome, NetZero) /\ NLess(NetZero, next.netIncome)
                     THEN IF InterpLess(breakEvenHours, 5) THEN Null
                          ELSE [hoursPerWeek |-> breakEvenHours,
                                daysPerWeek |-> calculateDaysPerWeekFromInterp(breakEvenHours),
                                netIncome |-> NetZero,
                                grossIncome |->
                                    Interp(current.grossIncome,
                                           next.grossIncome - current.grossIncome, num, den),
                                afterTax |->
                                    Interp(current.afterTax,
                                           NSub(next.afterTax, current.afterTax), num, den),
                                childcareCost |->
                                    Interp(current.childcareCost,
                                           NSub(next.childcareCost, current.childcareCost),
                                           num, den)]
                     ELSE scan(i + 1)
    IN  scan(1)

\* graphData.ts lines 90-94: calculateAfterTaxIncome(24.95 x hoursPerWeek x 52),
\* hoursPerWeek in tenths, the gross in tenths of a dollar
calculateMinimumWageAfterTaxForHours(hoursPerWeek) ==
    LET annualHours == hoursPerWeek * 52
        minimumWageGrossAnnual == (AUSTRALIAN_MINIMUM_WAGE_PER_HOUR * annualHours) \div 100
    IN  calculateAfterTaxIncomeAt(minimumWageGrossAnnual)

\* part_007 lines 213-261.  calculateMinWageForHours is the reference curve,
\* a function of the hours per week.  The loop starts at the second sample.
\* t is kept with a positive denominator: where the two sides differ,
\* currentMinWage - current.netIncome and the denominator have the same sign.
findMinimumWageIntersection(points, calculateMinWageForHours) ==
    LET RECURSIVE scan(_)
        scan(i) ==
            IF i > Len(points) - 1 THEN Null
            ELSE LET current == points[i]
                     next == points[i + 1]
                     currentMinWage == calculateMinWageForHours[current.hoursPerWeek]
                     nextMinWage == calculateMinWageForHours[next.hoursPerWeek]
                     netIncomeDiff == NSub(next.netIncome, current.netIncome)
                     minWageDiff == NSub(nextMinWage, currentMinWage)
                     currentAbove == NLess(currentMinWage, current.netIncome)
                     nextAbove == NLess(nextMinWage, next.netIncome)
                     denominator == NSub(netIncomeDiff, minWageDiff)
                     num == NAbs(NSub(currentMinWage, current.netIncome))
                     den == NAbs(denominator)
                     intersectionHours ==
                         Interp(current.hoursPerWeek,
                                next.hoursPerWeek - current.hoursPerWeek, num, den)
                 IN  IF currentAbove # nextAbove
                        /\ NLess([c |-> 0, f |-> NetDen \div 10], den)
                        /\ ~InterpLeq(intersectionHours, 1)
                        /\ InterpLeq(intersectionHours, 500)
                     THEN [hoursPerWeek |-> intersectionHours,
                           daysPerWeek |-> calculateDaysPerWeekFromInterp(intersectionHours),
                           netIncome |-> Interp(current.netIncome, netIncomeDiff, num, den)]
                     ELSE scan(i + 1)
    IN  IF Len(points) = 0 THEN Null ELSE scan(2)

(***************************************************************************)
(* Calls of the curve analyzers on one sample sequence, fixed when the     *)
(* behaviour starts: ascending in hoursPerWeek and grossIncome, netIncome  *)
(* around zero and around the full-time minimum-wage reference.            *)
(***************************************************************************)
MaxPoints == 4

CurveNets ==
    {NetFromDollars(0 - 1), NetZero, NetFromDollars(1),
     minimumWageAfterTaxForHours(Undefined),
     NAdd(minimumWageAfterTaxForHours(Undefined), NetFromDollars(1))}

CurvePoints(nets) ==
    [i \in 1..Len(nets) |->
        [hoursPerWeek |-> 10 * (i - 1),
         daysPerWeek |-> calculateDaysPerWeekFromHours(10 * (i - 1)),
         netIncome |-> nets[i],
         grossIncome |-> 50000 + 10000 * (i - 1),
         afterTax |-> NAdd(nets[i], NetFromDollars(1000 * i)),
         childcareCost |-> NetFromDollars(1000 * i)]]

CurveSequences ==
    {CurvePoints(nets) : nets \in UNION {[1..n -> CurveNets] : n \in 0..MaxPoints}}

HoursPerFortnightArgs == {Undefined, Some(0), Some(40)}
IncomeTargets == {40000, 50000, 55000, 60000, 70000, 200000}
HoursTargets == {0 - 5, 0, 5, 10, 20, 900}

\* reference curves handed to findMinimumWageIntersection: the minimum wage
\* after tax for the hours, a curve below every sample, a curve above every
\* sample
SampleHours == {10 * i : i \in 0..MaxPoints}
References ==
    {[h \in SampleHours |-> calculateMinimumWageAfterTaxForHours(h)],
     [h \in SampleHours |-> NetFromDollars(0 - 5)],
     [h \in SampleHours |-> NetFromDollars(100000)]}

InitCurve ==
    /\ op = "none"
    /\ income = 0
    /\ isSecondOrLater = FALSE
    /\ activityHoursPerFortnight = 0
    /\ children = <<>>
    /\ childIndex = 0
    /\ subsidisedHoursPerFortnight = 0
    /\ ret = 0
    /\ prev = NoCall
    /\ args = NoArgs
    /\ dataPoints \in CurveSequences
    /\ url = <<>>
    /\ costCalls = <<>>

curveFrame ==
    <<income, isSecondOrLater, activityHoursPerFortnight, children, childIndex,
      subsidisedHoursPerFortnight, prev, dataPoints, url>>

FindBreakEvenPoint ==
    /\ op' = "findBreakEvenPoint"
    /\ args' = NoArgs
    /\ ret' = findBreakEvenPoint(dataPoints)
    /\ UNCHANGED curveFrame
    /\ costCalls' = <<>>

FindMinimumWageEquivalentPoint ==
    \E h \in HoursPerFortnightArgs :
        /\ op' = "findMinimumWageEquivalentPoint"
        /\ args' = [hoursPerFortnight |-> h]
        /\ ret' = findMinimumWageEquivalentPoint(dataPoints, h)
        /\ UNCHANGED curveFrame
        /\ costCalls' = <<>>

FindPointForIncome ==
    \E t \in IncomeTargets :
        /\ op' = "findPointForIncome"
        /\ args' = [target |-> t]
        /\ ret' = findPointForIncome(dataPoints, t)
        /\ UNCHANGED curveFrame
        /\ costCalls' = <<>>

FindPointForHours ==
    \E t \in HoursTargets :
        /\ op' = "findPointForHours"
        /\ args' = [target |-> t]
        /\ ret' = findPointForHours(dataPoints, t)
        /\ UNCHANGED curveFrame
        /\ costCalls' = <<>>

FindMaxIncomePoint ==
    /\ op' = "findMaxIncomePoint"
    /\ args' = NoArgs
    /\ ret' = findMaxIncomePoint(dataPoints)
    /\ UNCHANGED curveFrame
    /\ costCalls' = <<>>

FindBreakEvenHours ==
    /\ op' = "findBreakEvenHours"
    /\ args' = NoArgs
    /\ ret' = findBreakEvenHours(dataPoints)
    /\ UNCHANGED curveFrame
    /\ costCalls' = <<>>

FindMinimumWageIntersection ==
    \E reference \in References :
        /\ op' = "findMinimumWageIntersection"
        /\ args' = [calculateMinWageForHours |-> reference]
        /\ ret' = findMinimumWageIntersection(dataPoints, reference)
        /\ UNCHANGED curveFrame
        /\ costCalls' = <<>>

NextCurve ==
    \/ FindBreakEvenPoint
    \/ FindMinimumWageEquivalentPoint
    \/ FindPointForIncome
    \/ FindPointForHours
    \/ FindMaxIncomePoint
    \/ FindBreakEvenHours
    \/ FindMinimumWageIntersection

SpecCurve == InitCurve /\ [][NextCurve]_vars

(***************************************************************************)
(* shareUtils.ts: encodeStateToUrl (lines 21-74) and decodeStateFromUrl    *)
(* (lines 76-168).  A string is a sequence of one-character strings.       *)
(* Numbers are non-negative; incomes, hours per week and hours per day are *)
(* whole, daysPerWeek is in tenths and hourlyRate in cents (dollars in the *)
(* URL), so `${n}` prints a scaled number with its decimal places.         *)
(***************************************************************************)
DigitChars == <<"0", "1", "2", "3", "4", "5", "6", "7", "8", "9">>
DigitValue(ch) == (CHOOSE i \in 1..10 : DigitChars[i] = ch) - 1
IsDigit(ch) == \E i \in 1..10 : DigitChars[i] = ch

RECURSIVE WholeDigits(_)
WholeDigits(n) ==
    IF n < 10 THEN <<DigitChars[n + 1]>>
    ELSE WholeDigits(n \div 10) \o <<DigitChars[(n % 10) + 1]>>

RECURSIVE FractionDigits(_, _)
FractionDigits(frac, scale) ==
    IF frac = 0 THEN <<>>
    ELSE <<DigitChars[((frac * 10) \div scale) + 1]>>
         \o FractionDigits((frac * 10) % scale, scale)

\* `${n}` for the number n / scale
NumberToString(n, scale) ==
    IF n % scale = 0 THEN WholeDigits(n \div scale)
    ELSE WholeDigits(n \div scale) \o <<".">> \o FractionDigits(n % scale, scale)

Includes(str, ch) == \E i \in 1..Len(str) : str[i] = ch

\* str.split(ch)
RECURSIVE Split(_, _)
Split(str, ch) ==
    IF ~Includes(str, ch) THEN <<str>>
    ELSE LET i == CHOOSE k \in 1..Len(str) :
                     str[k] = ch /\ \A j \in 1..(k - 1) : str[j] # ch
         IN  <<SubSeq(str, 1, i - 1)>> \o Split(SubSeq(str, i + 1, Len(str)), ch)

\* strs.join(ch)
RECURSIVE Join(_, _)
Join(strs, ch) ==
    IF Len(strs) = 0 THEN <<>>
    ELSE IF Len(strs) = 1 THEN strs[1]
    ELSE strs[1] \o <<ch>> \o Join(Tail(strs), ch)

RECURSIVE DigitsValue(_)
DigitsValue(str) ==
    IF Len(str) = 0 THEN 0
    ELSE DigitsValue(SubSeq(str, 1, Len(str) - 1)) * 10 + DigitValue(str[Len(str)])

\* the digits after the decimal point, as a number of 1 / scale
RECURSIVE FractionValue(_, _)
FractionValue(str, scale) ==
    IF Len(str) = 0 \/ scale = 1 THEN 0
    ELSE DigitValue(str[1]) * (scale \div 10) + FractionValue(Tail(str), scale \div 10)

\* Number(str) for strings of digits with at most one decimal point (no
\* sign, exponent or blank occurs in an encoded state); NaN otherwise; the
\* value is in 1 / scale
Number(str, scale) ==
    IF Len(str) = 0 THEN [nan |-> FALSE, value |-> 0]
    ELSE LET parts == Split(str, ".")
         IN  IF /\ Len(parts) <= 2
                /\ \A k \in 1..Len(parts) : \A i \in 1..Len(parts[k]) : IsDigit(parts[k][i])
                /\ \E k \in 1..Len(parts) : Len(parts[k]) > 0
             THEN [nan |-> FALSE,
                   value |-> DigitsValue(parts[1]) * scale
                             + (IF Len(parts) = 2 THEN FractionValue(parts[2], scale)
                                ELSE 0)]
             ELSE [nan |-> TRUE, value |-> 0]

\* Number(str) || fallback
NumberOr(str, scale, fallback) ==
    LET n == Number(str, scale)
    IN  IF n.nan \/ n.value = 0 THEN fallback ELSE n.value

encodeStateToUrl(state, defaults) ==
    LET ft == IF state.familyType # defaults.familyType
              THEN << <<"f", "t", "=">>
                      \o (IF state.familyType = "two-parent" THEN <<"2">> ELSE <<"1">>) >>
              ELSE <<>>
        fpi == IF state.firstParentIncome # defaults.firstParentIncome
               THEN << <<"f", "p", "i", "=">>
                       \o NumberToString(state.firstParentIncome, 1) >>
               ELSE <<>>
        fph == IF state.firstParentHoursPerWeek # defaults.firstParentHoursPerWeek
               THEN << <<"f", "p", "h", "=">>
                       \o NumberToString(state.firstParentHoursPerWeek, 1) >>
               ELSE <<>>
        spi == IF state.secondParentIncome # defaults.secondParentIncome
               THEN << <<"s", "p", "i", "=">>
                       \o NumberToString(state.secondParentIncome, 1) >>
               ELSE <<>>
        sph == IF state.secondParentHoursPerWeek # defaults.secondParentHoursPerWeek
               THEN << <<"s", "p", "h", "=">>
                       \o NumberToString(state.secondParentHoursPerWeek, 1) >>
               ELSE <<>>
        childrenChanged ==
            \/ Len(state.children) # Len(defaults.children)
            \/ \E index \in 1..Len(state.children) :
                  LET child == state.children[index]
                      defaultChild == defaults.children[index]
                  IN  \/ child.age # defaultChild.age
                      \/ child.hoursPerDay # defaultChild.hoursPerDay
                      \/ child.daysPerWeek # defaultChild.daysPerWeek
                      \/ child.hourlyRate # defaultChild.hourlyRate
                      \/ child.isSecondOrLater # defaultChild.isSecondOrLater
        childStr(child) ==
            LET age == IF child.age = "under-school" THEN <<"u">> ELSE <<"s">>
                isSecond == IF child.isSecondOrLater THEN <<"1">> ELSE <<"0">>
            IN  Join(<<age, NumberToString(child.hoursPerDay, 1),
                       NumberToString(child.daysPerWeek, 10),
                       NumberToString(child.hourlyRate, 100), isSecond>>, "-")
        childrenStr ==
            Join([i \in 1..Len(state.children) |-> childStr(state.children[i])], "_")
        c == IF childrenChanged THEN << <<"c", "=">> \o childrenStr >> ELSE <<>>
    IN  Join(ft \o fpi \o fph \o spi \o sph \o c, "&")

\* new URLSearchParams(str): the name-value pairs of the segments between
\* "&", each cut at its first "=" (no character of an encoded state is
\* escaped)
URLSearchParams(str) ==
    LET segments == SelectSeq(Split(str, "&"), LAMBDA seg : Len(seg) > 0)
        pair(seg) ==
            IF Includes(seg, "=")
            THEN LET name == Split(seg, "=")[1]
                 IN  [name |-> name, value |-> SubSeq(seg, Len(name) + 2, Len(seg))]
            ELSE [name |-> seg, value |-> <<>>]
    IN  [i \in 1..Len(segments) |-> pair(segments[i])]

\* searchParams.get(name): the first value of that name; truthy when it is
\* present and not the empty string
Get(searchParams, name) ==
    IF \E i \in 1..Len(searchParams) : searchParams[i].name = name
    THEN LET i == CHOOSE k \in 1..Len(searchParams) :
                     /\ searchParams[k].name = name
                     /\ \A j \in 1..(k - 1) : searchParams[j].name # name
         IN  [truthy |-> Len(searchParams[i].value) > 0, value |-> searchParams[i].value]
    ELSE [truthy |-> FALSE, value |-> <<>>]

decodeStateFromUrl(searchParams, defaults) ==
    LET familyType == Get(searchParams, <<"f", "t">>)
        firstParentIncome == Get(searchParams, <<"f", "p", "i">>)
        firstParentHoursPerWeek == Get(searchParams, <<"f", "p", "h">>)
        secondParentIncome == Get(searchParams, <<"s", "p", "i">>)
        secondParentHoursPerWeek == Get(searchParams, <<"s", "p", "h">>)
        childrenData == Get(searchParams, <<"c">>)
        childrenParts ==
            IF Includes(childrenData.value, "_") THEN Split(childrenData.value, "_")
            ELSE IF Includes(childrenData.value, "|") THEN Split(childrenData.value, "|")
            ELSE <<childrenData.value>>
        partsOf(part) == IF Includes(part, "-") THEN Split(part, "-") ELSE Split(part, ",")
        throws(part) ==
            \/ Len(partsOf(part)) # 5
            \/ partsOf(part)[1] \notin {<<"u">>, <<"s">>}
        decodedChild(part) ==
            LET parts == partsOf(part)
            IN  [age |-> IF parts[1] = <<"u">> THEN "under-school" ELSE "school-age",
                 hoursPerDay |-> NumberOr(parts[2], 1, 0),
                 daysPerWeek |-> NumberOr(parts[3], 10, 0),
                 hourlyRate |-> NumberOr(parts[4], 100, 0),
                 isSecondOrLater |-> parts[5] = <<"1">>]
    IN  [familyType |->
            IF familyType.truthy
            THEN (IF familyType.value = <<"2">> THEN "two-parent" ELSE "single-parent")
            ELSE defaults.familyType,
         firstParentIncome |->
            IF firstParentIncome.truthy
            THEN NumberOr(firstParentIncome.value, 1, defaults.firstParentIncome)
            ELSE defaults.firstParentIncome,
         firstParentHoursPerWeek |->
            IF firstParentHoursPerWeek.truthy
            THEN NumberOr(firstParentHoursPerWeek.value, 1, defaults.firstParentHoursPerWeek)
            ELSE defaults.firstParentHoursPerWeek,
         secondParentIncome |->
            IF secondParentIncome.truthy
            THEN NumberOr(secondParentIncome.value, 1, defaults.secondParentIncome)
            ELSE defaults.secondParentIncome,
         secondParentHoursPerWeek |->
            IF secondParentHoursPerWeek.truthy
            THEN NumberOr(secondParentHoursPerWeek.value, 1,
                          defaults.secondParentHoursPerWeek)
            ELSE defaults.secondParentHoursPerWeek,
         children |->
            IF childrenData.truthy
            THEN (IF \E i \in 1..Len(childrenParts) : throws(childrenParts[i])
                  THEN defaults.children
                  ELSE [i \in 1..Len(childrenParts) |-> decodedChild(childrenParts[i])])
            ELSE defaults.children]

(***************************************************************************)
(* Calls of encodeStateToUrl and decodeStateFromUrl.  The state and the    *)
(* defaults are fixed when the behaviour starts; url is the last encoded   *)
(* string (the empty string before the first encoding).                    *)
(***************************************************************************)
ShareChildSet ==
    {[age |-> "under-school", hoursPerDay |-> 8, daysPerWeek |-> 50,
      hourlyRate |-> 2000, isSecondOrLater |-> FALSE],
     [age |-> "school-age", hoursPerDay |-> 11, daysPerWeek |-> 25,
      hourlyRate |-> 1550, isSecondOrLater |-> TRUE],
     [age |-> "under-school", hoursPerDay |-> 0, daysPerWeek |-> 0,
      hourlyRate |-> 0, isSecondOrLater |-> FALSE]}
ShareChildLists == UNION {[1..n -> ShareChildSet] : n \in 0..MaxChildren}

ShareableStates ==
    [familyType : {"two-parent", "single-parent"},
     firstParentIncome : {0, 90000},
     firstParentHoursPerWeek : {38},
     secondParentIncome : {80000},
     secondParentHoursPerWeek : {0, 40},
     children : ShareChildLists]

DefaultStates ==
    {[familyType |-> "two-parent", firstParentIncome |-> 100000,
      firstParentHoursPerWeek |-> 38, secondParentIncome |-> 80000,
      secondParentHoursPerWeek |-> 38,
      children |-> <<[age |-> "under-school", hoursPerDay |-> 8, daysPerWeek |-> 50,
                      hourlyRate |-> 2000, isSecondOrLater |-> FALSE]>>],
     [familyType |-> "single-parent", firstParentIncome |-> 0,
      firstParentHoursPerWeek |-> 0, secondParentIncome |-> 0,
      secondParentHoursPerWeek |-> 0, children |-> <<>>]}

InitShare ==
    /\ op = "none"
    /\ income = 0
    /\ isSecondOrLater = FALSE
    /\ activityHoursPerFortnight = 0
    /\ children = <<>>
    /\ childIndex = 0
    /\ subsidisedHoursPerFortnight = 0
    /\ ret = 0
    /\ prev = NoCall
    /\ args \in [state : ShareableStates, defaults : DefaultStates]
    /\ dataPoints = <<>>
    /\ url = <<>>
    /\ costCalls = <<>>

EncodeStateToUrl ==
    /\ "state" \in DOMAIN args
    /\ op' = "encodeStateToUrl"
    /\ url' = encodeStateToUrl(args.state, args.defaults)
    /\ ret' = url'
    /\ UNCHANGED <<income, isSecondOrLater, activityHoursPerFortnight, children,
                   childIndex, subsidisedHoursPerFortnight, prev, args, dataPoints>>
    /\ costCalls' = <<>>

DecodeStateFromUrl ==
    /\ "state" \in DOMAIN args
    /\ op' = "decodeStateFromUrl"
    /\ ret' = decodeStateFromUrl(URLSearchParams(url), args.defaults)
    /\ UNCHANGED <<income, isSecondOrLater, activityHoursPerFortnight, children,
                   childIndex, subsidisedHoursPerFortnight, prev, args, dataPoints, url>>
    /\ costCalls' = <<>>

NextShare == EncodeStateToUrl \/ DecodeStateFromUrl

SpecShare == InitShare /\ [][NextShare]_vars

Next ==
    \/ NextSubsidy
    \/ NextCosts
    \/ NextTax
    \/ NextScenario
    \/ NextGraph
    \/ NextCurve
    \/ NextShare

\* every call of the library, from the empty state or from a fixed scenario
Spec ==
    /\ (Init \/ InitCosts \/ InitScenario \/ InitGraph \/ InitCurve \/ InitShare)
    /\ [][Next]_vars


(***************************************************************************)
(* Properties of the subsidy functions (SpecSubsidy).                      *)
(***************************************************************************)

\* C1: calculateSubsidyPercent is non-increasing in income for both child
\* variants: of two consecutive calls with the same isSecondOrLater, the one
\* with the higher income never returns the higher percent.
C1_PercentNonIncreasing ==
    (/\ op = "calculateSubsidyPercent"
     /\ prev.op = "calculateSubsidyPercent"
     /\ prev.isSecondOrLater = isSecondOrLater
     /\ prev.income < income)
    => prev.ret >= ret

\* two calls for a priority child on the two sides of the 267563 boundary
C1_Witness ==
    /\ op = "calculateSubsidyPercent"
    /\ prev.op = "calculateSubsidyPercent"
    /\ isSecondOrLater /\ prev.isSecondOrLater
    /\ prev.income = SECOND_CHILD_FLAT_80_END
    /\ income = SECOND_CHILD_FLAT_80_END + 3000
    /\ prev.ret = 80 /\ ret = 79

\* the chained piecewise reference of the priority schedule, written with
\* the literal policy figures
PriorityReference(inc) ==
    IF inc <= 143273 THEN 95
    ELSE IF inc <= 188273 THEN Max(80, 95 - ((inc - 143273) \div 3000))
    ELSE IF inc <= 267563 THEN 80
    ELSE IF inc <= 357563 THEN Max(50, 80 - ((inc - 267563) \div 3000))
    ELSE 50

\* C2: for a priority child the percent equals the chained piecewise
\* reference at every income: exactly 80 at 188273, exactly 50 at 357563,
\* 93 at 150000, and 50 (never 0) for every income from 357563 up.
C2_PriorityPiecewise ==
    (op = "calculateSubsidyPercent" /\ isSecondOrLater)
    => /\ ret = PriorityReference(income)
       /\ (income = 188273 => ret = 80)
       /\ (income = 357563 => ret = 50)
       /\ (income = 150000 => ret = 93)
       /\ (income >= 357563 => ret = 50)

\* a priority child at an income beyond the standard schedule's MAX_INCOME
C2_Witness ==
    /\ op = "calculateSubsidyPercent"
    /\ isSecondOrLater
    /\ income > MAX_INCOME
    /\ ret = 50

\* C3: for a standard child the percent is 90 up to 85279,
\* 90 - floor((income - 85279)/5000) strictly between 85279 and 535279 and 0
\* from 535279 up; an income exactly on a $5,000 increment already has the
\* lower percent.
C3_StandardPiecewise ==
    (op = "calculateSubsidyPercent" /\ ~isSecondOrLater)
    => /\ (income <= 85279 => ret = 90)
       /\ (income > 85279 /\ income < 535279
              => ret = 90 - ((income - 85279) \div 5000))
       /\ (income >= 535279 => ret = 0)
       /\ (income = 85279 + 5000 => ret = 89)
       /\ (income = 85279 + 5000 - 1 => ret = 90)
       /\ (income = 85279 + 10000 => ret = 88)
       /\ (income = 285279 => ret = 50)

\* a standard child with an income exactly one increment above the base
C3_Witness ==
    /\ op = "calculateSubsidyPercent"
    /\ ~isSecondOrLater
    /\ income = BASE_INCOME + INCOME_STEP
    /\ ret = 89

\* C7: calculateSubsidisedHours is a binary threshold: 72 for every activity
\* figure below 48, 100 for every one from 48 up, nothing in between.
C7_BinaryThreshold ==
    op = "calculateSubsidisedHours"
    => /\ ret \in {72, 100}
       /\ (activityHoursPerFortnight < 48 => ret = 72)
       /\ (activityHoursPerFortnight >= 48 => ret = 100)

\* the call with exactly 48 activity hours
C7_Witness ==
    /\ op = "calculateSubsidisedHours"
    /\ activityHoursPerFortnight = 48
    /\ ret = 100

(***************************************************************************)
(* Properties of the cost functions (SpecCosts).                           *)
(***************************************************************************)
TotalCostsOps == {"calculateTotalCosts", "calculateTotalCostsWithWorkDays"}

\* the rate cap of an age category, in cents (14.63 and 12.81 dollars)
CapOfAge(age) == IF age = "under-school" THEN 1463 ELSE 1281

\* the ceiling a total-costs call works with, in tenths of an hour
CeilingUsed ==
    IF op = "calculateTotalCosts"
    THEN IF activityHoursPerFortnight >= 48 THEN 1000 ELSE 720
    ELSE subsidisedHoursPerFortnight

\* sum of f[1..n], from the last term down
RECURSIVE SumTo(_, _)
SumTo(f, n) == IF n = 0 THEN 0 ELSE SumTo(f, n - 1) + f[n]

\* C4: cap dominance.  Whenever the child's hourlyRate is above the rate cap
\* of its age category, calculateChildSubsidy returns
\* subsidyPerHour = cap x subsidyPercent / 100, whatever the rate charged;
\* in general subsidyPerHour = min(hourlyRate, cap) x subsidyPercent / 100.
C4_CapDominance ==
    op = "calculateChildSubsidy"
    => LET child == children[childIndex]
           cap == CapOfAge(child.age)
       IN  /\ ret.hourlyRateCap = cap
           /\ (child.hourlyRate > cap => ret.subsidyPerHour = cap * ret.subsidyPercent)
           /\ (child.hourlyRate <= cap
                  => ret.subsidyPerHour = child.hourlyRate * ret.subsidyPercent)

\* a school-age child charged above its cap, with a non-zero percent
C4_Witness ==
    /\ op = "calculateChildSubsidy"
    /\ children[childIndex].age = "school-age"
    /\ children[childIndex].hourlyRate > HOURLY_RATE_CAP_SCHOOL_AGE
    /\ ret.subsidyPercent > 0
    /\ ret.subsidyPerHour = 1281 * ret.subsidyPercent

\* C5: hours conservation.  For every child detail of calculateTotalCosts
\* and of calculateTotalCostsWithWorkDays,
\* subsidisedHours + unsubsidisedHours = hoursPerDay x daysPerWeek x 2,
\* subsidisedHours = min(hoursPerFortnight, ceiling), unsubsidisedHours >= 0.
C5_HoursConservation ==
    op \in TotalCostsOps
    => /\ Len(ret.childDetails) = Len(children)
       /\ \A i \in 1..Len(children) :
            LET d == ret.childDetails[i]
                hoursPerFortnight == children[i].hoursPerDay * children[i].daysPerWeek * 2
            IN  /\ d.subsidisedHours + d.unsubsidisedHours = hoursPerFortnight
                /\ d.subsidisedHours
                     = (IF hoursPerFortnight <= CeilingUsed
                        THEN hoursPerFortnight ELSE CeilingUsed)
                /\ d.unsubsidisedHours >= 0

\* one child below the ceiling and one above it in the same call
C5_Witness ==
    /\ op \in TotalCostsOps
    /\ \E i, j \in 1..Len(children) :
          /\ ret.childDetails[i].unsubsidisedHours > 0
          /\ ret.childDetails[i].subsidisedHours = CeilingUsed
          /\ ret.childDetails[j].unsubsidisedHours = 0
          /\ ret.childDetails[j].subsidisedHours > 0
          /\ ret.childDetails[j].subsidisedHours < CeilingUsed

\* C6: cost composition in calculateTotalCosts.  Each child's totalCost is
\* hoursPerFortnight x hourlyRate at the uncapped rate, its outOfPocket is
\* totalCost - subsidisedHours x subsidyPerHour, the aggregates are the sums
\* over the children, and totalChildcareOutOfPocket
\* = totalChildcareCost - totalChildcareSubsidy = the sum of the children's
\* outOfPocket (0 for no children).
C6_CostComposition ==
    op = "calculateTotalCosts"
    => LET n == Len(children)
           d == ret.childDetails
       IN  /\ \A i \in 1..n :
                /\ d[i].totalCost
                     = children[i].hoursPerDay * children[i].daysPerWeek * 2
                       * children[i].hourlyRate * 100
                /\ d[i].subsidyAmount = d[i].subsidisedHours * d[i].subsidyPerHour
                /\ d[i].outOfPocket = d[i].totalCost - d[i].subsidisedHours * d[i].subsidyPerHour
           /\ ret.totalChildcareCost = SumTo([i \in 1..n |-> d[i].totalCost], n)
           /\ ret.totalChildcareSubsidy = SumTo([i \in 1..n |-> d[i].subsidyAmount], n)
           /\ ret.totalChildcareOutOfPocket
                = ret.totalChildcareCost - ret.totalChildcareSubsidy
           /\ ret.totalChildcareOutOfPocket = SumTo([i \in 1..n |-> d[i].outOfPocket], n)
           /\ (n = 0 => ret.totalChildcareOutOfPocket = 0)

\* two children in care, one of them charged above its rate cap
C6_Witness ==
    /\ op = "calculateTotalCosts"
    /\ Len(children) = 2
    /\ children[1].hourlyRate > ret.childDetails[1].hourlyRateCap
    /\ ret.childDetails[1].subsidyAmount > 0
    /\ ret.childDetails[2].outOfPocket > 0
    /\ ret.totalChildcareOutOfPocket
         = ret.childDetails[1].outOfPocket + ret.childDetails[2].outOfPocket

\* C8: zero-days guard.  When the children's daysPerWeek sum to 0 (every
\* child at 0 days, or no child), both total-costs functions return
\* childcarePerDay = 0 and do not divide; otherwise childcarePerDay is
\* totalChildcareOutOfPocket / sum(daysPerWeek x 2).
C8_ZeroDaysGuard ==
    op \in TotalCostsOps
    => LET n == Len(children)
           days == SumTo([i \in 1..n |-> children[i].daysPerWeek * 2], n)
       IN  /\ ret.childcarePerDay.den # 0
           /\ (days = 0 => ret.childcarePerDay = [num |-> 0, den |-> 1])
           /\ (days # 0 => ret.childcarePerDay
                             = [num |-> ret.totalChildcareOutOfPocket, den |-> days])

\* a non-empty list whose children are all at 0 days per week
C8_Witness ==
    /\ op \in TotalCostsOps
    /\ Len(children) > 0
    /\ \A i \in 1..Len(children) : children[i].daysPerWeek = 0
    /\ ret.childcarePerDay.num = 0

(***************************************************************************)
(* Properties of the tax functions (SpecTax).                              *)
(***************************************************************************)

\* C9: calculateIncomeTax returns exactly 0 for every income up to 18200,
\* and max(0, (income - 18200) x 0.16 - 700) for every income above 18200
\* and up to 37000: the whole 700 offset applies and the result is never
\* negative.  (Mills: 0.16 dollar = 160, 700 dollars = 700000.)
C9_TaxFirstBracket ==
    op = "calculateIncomeTax"
    => /\ ret >= 0
       /\ (income <= 18200 => ret = 0)
       /\ (income > 18200 /\ income <= 37000
              => ret = (IF (income - 18200) * 160 - 700000 > 0
                        THEN (income - 18200) * 160 - 700000
                        ELSE 0))
       /\ (income = 30000 => ret = 1188000)

\* an income above the tax-free threshold whose bracket tax is below the offset
C9_Witness ==
    /\ op = "calculateIncomeTax"
    /\ income > 18200
    /\ (income - 18200) * 160 < 700000
    /\ ret = 0

ScenarioCosts ==
    calculateTotalCosts(children, args.firstParentIncome + args.secondParentIncome,
                        activityHoursPerFortnight)

HoursForRate ==
    IF args.secondParentHoursPerFortnight.present
    THEN args.secondParentHoursPerFortnight.value
    ELSE activityHoursPerFortnight

\* C12: effectiveHourlyRate is netIncomeAfterChildcare / (H x 26), H being
\* the supplied secondParentHoursPerFortnight or, when none is supplied, the
\* activity hours; when H x 26 is not positive the rate is 0.
C12_EffectiveHourlyRate ==
    op = "calculateSecondParentScenario" =>
        IF HoursForRate * 26 > 0
        THEN /\ ret.effectiveHourlyRate.num = ret.netIncomeAfterChildcare
             /\ ret.effectiveHourlyRate.den = HoursForRate * 26
        ELSE /\ ret.effectiveHourlyRate.num = NetZero
             /\ ret.effectiveHourlyRate.den # 0

\* supplied hours of 0 with positive activity hours: the rate is 0
C12_Witness ==
    /\ op = "calculateSecondParentScenario"
    /\ args.secondParentHoursPerFortnight = Some(0)
    /\ activityHoursPerFortnight > 0
    /\ ret.netIncomeAfterChildcare # NetZero
    /\ ret.effectiveHourlyRate.num = NetZero

\* C13: percentageOfIncomeLost is 0 (a defined number) when
\* secondParentIncome = 0, and (secondParentIncome - netIncomeAfterChildcare)
\* / secondParentIncome x 100 when secondParentIncome > 0.
C13_PercentageGuarded ==
    op = "calculateSecondParentScenario" =>
        IF args.secondParentIncome = 0
        THEN /\ ret.percentageOfIncomeLost.den # 0
             /\ ret.percentageOfIncomeLost.num = NetZero
        ELSE /\ ret.percentageOfIncomeLost.den = args.secondParentIncome
             /\ ret.percentageOfIncomeLost.num
                  = NSub(NetFromDollars(args.secondParentIncome),
                         ret.netIncomeAfterChildcare)

(***************************************************************************)
(* Properties of the samplers (SpecGraph).                                 *)
(***************************************************************************)
\* C14: for minIncome <= maxIncome and step > 0 the first sample of
\* calculateGraphData has grossIncome = minIncome and the last sample has
\* grossIncome = maxIncome, also when maxIncome - minIncome is not a multiple
\* of step, and the samples are strictly ascending in grossIncome.
C14_BothEndpoints ==
    (op = "calculateGraphData" /\ args.minIncome <= args.maxIncome /\ args.step > 0) =>
        /\ Len(ret) >= 1
        /\ ret[1].grossIncome = args.minIncome
        /\ ret[Len(ret)].grossIncome = args.maxIncome
        /\ \A i \in 1..(Len(ret) - 1) : ret[i].grossIncome < ret[i + 1].grossIncome

\* C19: no step of calculateHoursGraphData, calculateTotalCosts,
\* calculateTotalCostsWithWorkDays or calculateGraphData changes the caller's
\* children: the array keeps its length and every record its five fields.
C19_ChildrenNotMutated == [][children' = children]_vars

\* a hours sweep over at least one child has returned samples whose
\* daysPerWeek differs from the child's own
C19_Witness ==
    /\ op = "calculateHoursGraphData"
    /\ Len(children) > 0
    /\ \E i \in 1..Len(ret) : ret[i].daysPerWeek # children[1].daysPerWeek
    /\ \E i \in 1..Len(ret) : ret[i].childcareCost # NetZero

(***************************************************************************)
(* Properties of the curve analyzers (SpecCurve).                          *)
(***************************************************************************)
NetAt(i) == dataPoints[i].netIncome
Pairs == 1..(Len(dataPoints) - 1)
SignChange(i) ==
    \/ NLeq(NetZero, NetAt(i)) /\ NLess(NetAt(i + 1), NetZero)
    \/ NLeq(NetAt(i), NetZero) /\ NLess(NetZero, NetAt(i + 1))
FirstSignChange == CHOOSE i \in Pairs : SignChange(i) /\ \A j \in 1..(i - 1) : ~SignChange(j)

\* C15: findBreakEvenPoint returns null exactly when no adjacent pair of
\* samples changes sign; otherwise netIncome = 0 and income = current.gross +
\* (next.gross - current.gross) x |current| / (|current| + |next|) for the
\* first pair that changes sign, a ratio in [0, 1] (in (0, 1) when both net
\* incomes are non-zero), so the income lies between the two samples.
C15_BreakEvenPoint ==
    op = "findBreakEvenPoint" =>
        IF \A i \in Pairs : ~SignChange(i)
        THEN ret = Null
        ELSE LET i == FirstSignChange
                 current == dataPoints[i]
                 next == dataPoints[i + 1]
             IN  /\ ret # Null
                 /\ ret.netIncome = NetZero
                 /\ ret.income.lo = current.grossIncome
                 /\ ret.income.span = next.grossIncome - current.grossIncome
                 /\ ret.income.span >= 0
                 /\ ret.income.num = NAbs(current.netIncome)
                 /\ ret.income.den = NAdd(NAbs(current.netIncome), NAbs(next.netIncome))
                 /\ NLess(NetZero, ret.income.den)
                 /\ NLeq(NetZero, ret.income.num)
                 /\ NLeq(ret.income.num, ret.income.den)
                 /\ (current.netIncome # NetZero /\ next.netIncome # NetZero) =>
                        (NLess(NetZero, ret.income.num)
                         /\ NLess(ret.income.num, ret.income.den))

\* the first pair keeps its sign, the second goes from positive to negative
C15_Witness ==
    /\ op = "findBreakEvenPoint"
    /\ Len(dataPoints) = 3
    /\ ~SignChange(1)
    /\ NLess(NetZero, NetAt(2)) /\ NLess(NetAt(3), NetZero)
    /\ ret # Null
    /\ ret.income.lo = dataPoints[2].grossIncome

Reference == minimumWageAfterTaxForHours(args.hoursPerFortnight)
Indices == 1..Len(dataPoints)
Brackets(i) ==
    \/ NLeq(NetAt(i), Reference) /\ NLeq(Reference, NetAt(i + 1))
    \/ NLeq(Reference, NetAt(i)) /\ NLeq(NetAt(i + 1), Reference)
IsSampleOf(r, i) ==
    /\ r.netIncome = NetAt(i)
    /\ r.income = Exactly(dataPoints[i].grossIncome)

\* C16: findMinimumWageEquivalentPoint returns null only for an empty
\* sequence; with the reference below every sample it returns the sample of
\* lowest netIncome, with the reference above every sample the sample of
\* highest netIncome, and otherwise a point with netIncome equal to the
\* reference or, when no adjacent pair brackets the reference, the sample
\* closest to it.
C16_MinimumWagePoint ==
    op = "findMinimumWageEquivalentPoint" =>
        IF Len(dataPoints) = 0 THEN ret = Null
        ELSE /\ ret # Null
             /\ (\A i \in Indices : NLess(Reference, NetAt(i))) =>
                    \E i \in Indices :
                        /\ IsSampleOf(ret, i)
                        /\ \A j \in Indices : NLeq(NetAt(i), NetAt(j))
             /\ (\A i \in Indices : NLess(NetAt(i), Reference)) =>
                    \E i \in Indices :
                        /\ IsSampleOf(ret, i)
                        /\ \A j \in Indices : NLeq(NetAt(j), NetAt(i))
             /\ ((\E i \in Indices : NLeq(NetAt(i), Reference))
                 /\ (\E i \in Indices : NLeq(Reference, NetAt(i)))) =>
                    IF \E i \in Pairs : Brackets(i)
                    THEN ret.netIncome = Reference
                    ELSE \E i \in Indices :
                            /\ IsSampleOf(ret, i)
                            /\ \A j \in Indices :
                                  NLeq(NAbs(NSub(NetAt(i), Reference)),
                                       NAbs(NSub(NetAt(j), Reference)))

\* the reference is below every sample and the lowest sample is not the first
C16_Witness ==
    /\ op = "findMinimumWageEquivalentPoint"
    /\ Len(dataPoints) >= 2
    /\ \A i \in Indices : NLess(Reference, NetAt(i))
    /\ NLess(NetAt(2), NetAt(1))
    /\ ret # Null
    /\ ret.income.lo # dataPoints[1].grossIncome

XAt(i) == IF op = "findPointForHours" THEN dataPoints[i].hoursPerWeek
          ELSE dataPoints[i].grossIncome
IsSample(r) == r # Null /\ "c" \in DOMAIN r.netIncome

\* C17: for a non-empty ascending sequence (a one-element sequence included)
\* and a target equal to a sample's x value, findPointForIncome and
\* findPointForHours return that sample; they return null when the target is
\* below the first or above the last x value or the sequence is empty.
C17_ExactSampleOnHit ==
    op \in {"findPointForIncome", "findPointForHours"} =>
        /\ \A i \in Indices :
              XAt(i) = args.target => (IsSample(ret) /\ ret = dataPoints[i])
        /\ (Len(dataPoints) = 0
            \/ args.target < XAt(1)
            \/ args.target > XAt(Len(dataPoints))) => ret = Null

\* C18: findMaxIncomePoint returns null only for an empty sequence, and
\* otherwise the earliest of the samples whose netIncome is >= every
\* sample's netIncome.
C18_MaxIncomePoint ==
    op = "findMaxIncomePoint" =>
        IF Len(dataPoints) = 0 THEN ret = Null
        ELSE \E i \in Indices :
                /\ ret = dataPoints[i]
                /\ \A j \in Indices : NLeq(NetAt(j), NetAt(i))
                /\ \A j \in 1..(i - 1) : NLess(NetAt(j), NetAt(i))

\* the maximum is attained by the second and the third sample
C18_Witness ==
    /\ op = "findMaxIncomePoint"
    /\ Len(dataPoints) = 3
    /\ NLess(NetAt(1), NetAt(2))
    /\ NetAt(2) = NetAt(3)
    /\ ret = dataPoints[2]

(***************************************************************************)
(* Properties of URL sharing (SpecShare).                                  *)
(***************************************************************************)
\* C20: decoding the encoded state with the same defaults gives a state
\* equal to the encoded one in familyType, the four income and hours fields,
\* the number of children and every child's five fields, zero fields and an
\* empty children list included.
C20_RoundTrip ==
    (op = "decodeStateFromUrl" /\ url = encodeStateToUrl(args.state, args.defaults)) =>
        /\ ret.familyType = args.state.familyType
        /\ ret.firstParentIncome = args.state.firstParentIncome
        /\ ret.firstParentHoursPerWeek = args.state.firstParentHoursPerWeek
        /\ ret.secondParentIncome = args.state.secondParentIncome
        /\ ret.secondParentHoursPerWeek = args.state.secondParentHoursPerWeek
        /\ Len(ret.children) = Len(args.state.children)
        /\ \A i \in 1..Len(ret.children) :
              /\ ret.children[i].age = args.state.children[i].age
              /\ ret.children[i].hoursPerDay = args.state.children[i].hoursPerDay
              /\ ret.children[i].daysPerWeek = args.state.children[i].daysPerWeek
              /\ ret.children[i].hourlyRate = args.state.children[i].hourlyRate
              /\ ret.children[i].isSecondOrLater = args.state.children[i].isSecondOrLater

(***************************************************************************)
(* Properties of the hours sweep (SpecGraph).                              *)
(***************************************************************************)
\* C21: in calculateHoursGraphData the ceiling handed to the cost call of
\* each sample is min(max(22 x daysPerWeek, 72), 100) with daysPerWeek =
\* round(hoursPerWeek / 7.6, one decimal): it lies in [72, 100] and every
\* child of that call has the derived daysPerWeek.
C21_CeilingFromWorkDays ==
    op = "calculateHoursGraphData" =>
        /\ Len(costCalls) = Len(ret)
        /\ \A i \in 1..Len(ret) :
              LET days == ret[i].daysPerWeek
                  ceiling == costCalls[i].subsidisedHoursPerFortnight
              IN  /\ 76 * (2 * days - 1) <= 20 * ret[i].hoursPerWeek
                  /\ 20 * ret[i].hoursPerWeek < 76 * (2 * days + 1)
                  /\ ceiling >= 720 /\ ceiling <= 1000
                  /\ (22 * days <= 720) => ceiling = 720
                  /\ (22 * days >= 1000) => ceiling = 1000
                  /\ (22 * days > 720 /\ 22 * days < 1000) => ceiling = 22 * days
                  /\ Len(costCalls[i].children) = Len(children)
                  /\ \A k \in 1..Len(children) :
                        costCalls[i].children[k].daysPerWeek = days

\* a sweep over at least one child with a sample at the lower ceiling, one
\* between the ceilings and one cut at the upper ceiling
C21_Witness ==
    /\ op = "calculateHoursGraphData"
    /\ Len(children) > 0
    /\ \E i \in 1..Len(ret) :
          /\ 22 * ret[i].daysPerWeek < 720
          /\ costCalls[i].subsidisedHoursPerFortnight = 720
    /\ \E i \in 1..Len(ret) :
          costCalls[i].subsidisedHoursPerFortnight = 22 * ret[i].daysPerWeek
    /\ \E i \in 1..Len(ret) :
          /\ 22 * ret[i].daysPerWeek > 1000
          /\ costCalls[i].subsidisedHoursPerFortnight = 1000

(***************************************************************************)
(* Properties of the two cost variants (SpecCosts).                        *)
(***************************************************************************)
\* the fields of a per-child detail that the two variants have in common
SharedDetail(d) ==
    [subsidyPercent |-> d.subsidyPercent,
     subsidyPerHour |-> d.subsidyPerHour,
     subsidyAmount |-> d.subsidyAmount,
     totalCost |-> d.totalCost,
     outOfPocket |-> d.outOfPocket,
     subsidisedHours |-> d.subsidisedHours,
     unsubsidisedHours |-> d.unsubsidisedHours]

SharedTotals(r) ==
    [totalChildcareCost |-> r.totalChildcareCost,
     totalChildcareSubsidy |-> r.totalChildcareSubsidy,
     totalChildcareOutOfPocket |-> r.totalChildcareOutOfPocket,
     childcarePerDay |-> r.childcarePerDay,
     childDetails |-> [i \in 1..Len(r.childDetails) |-> SharedDetail(r.childDetails[i])]]

\* the work-day ceiling is the one calculateSubsidisedHours gives for the
\* scenario's activity hours (whole hours against tenths of an hour)
CeilingOfActivity ==
    subsidisedHoursPerFortnight = 10 * calculateSubsidisedHours(activityHoursPerFortnight)

\* C22: called with the ceiling calculateSubsidisedHours(a),
\* calculateTotalCostsWithWorkDays returns the same four totals and the same
\* per-child subsidyPercent, subsidyPerHour, subsidyAmount, totalCost,
\* outOfPocket, subsidisedHours and unsubsidisedHours as
\* calculateTotalCosts(children, income, a).
C22_SameFormula ==
    (op = "calculateTotalCostsWithWorkDays" /\ CeilingOfActivity) =>
        SharedTotals(ret) =
            SharedTotals(calculateTotalCosts(children, income, activityHoursPerFortnight))

\* both ceilings are met, with a child whose hours exceed the ceiling and a
\* child charged above the rate cap
C22_Witness ==
    /\ op = "calculateTotalCostsWithWorkDays"
    /\ CeilingOfActivity
    /\ activityHoursPerFortnight >= ACTIVITY_THRESHOLD_FOR_MAX_HOURS
    /\ Len(children) = 2
    /\ ret.childDetails[1].unsubsidisedHours > 0
    /\ children[2].hourlyRate > ret.childDetails[2].hourlyRateCap
    /\ ret.totalChildcareSubsidy > 0

(***************************************************************************)
(* Properties of the hours-sweep analyzers (SpecCurve).                    *)
(***************************************************************************)
UpCrossing(i) == NLeq(NetAt(i), NetZero) /\ NLess(NetZero, NetAt(i + 1))
DownCrossing(i) == NLess(NetZero, NetAt(i)) /\ NLess(NetAt(i + 1), NetZero)
\* the hours at which the straight line between samples i and i + 1 meets zero
CrossingHours(i) ==
    Interp(dataPoints[i].hoursPerWeek,
           dataPoints[i + 1].hoursPerWeek - dataPoints[i].hoursPerWeek,
           NAbs(NetAt(i)), NAdd(NAbs(NetAt(i)), NAbs(NetAt(i + 1))))

\* C23: findBreakEvenHours returns a non-null interpolated point with
\* netIncome 0 whenever some adjacent pair goes from non-positive to positive
\* netIncome, and also whenever some adjacent pair goes from positive to
\* negative netIncome; it returns null only when no adjacent pair changes
\* sign.
C23_BothDirections ==
    op = "findBreakEvenHours" =>
        /\ (\E i \in Pairs : UpCrossing(i)) => (ret # Null /\ ret.netIncome = NetZero)
        /\ (\E i \in Pairs : DownCrossing(i)) => (ret # Null /\ ret.netIncome = NetZero)
        /\ ret = Null => \A i \in Pairs : ~UpCrossing(i) /\ ~DownCrossing(i)

\* the reference curve handed to findMinimumWageIntersection, at sample i
ReferenceAt(i) == args.calculateMinWageForHours[dataPoints[i].hoursPerWeek]
IsIntersectionSample(r, i) ==
    /\ r.hoursPerWeek = dataPoints[i].hoursPerWeek
    /\ r.daysPerWeek = dataPoints[i].daysPerWeek
    /\ r.netIncome = NetAt(i)

\* C24: for a non-empty sample sequence, when the reference curve lies
\* entirely below the samples' netIncome findMinimumWageIntersection returns
\* the sample of lowest netIncome, and when it lies entirely above, the sample
\* of highest netIncome; in neither case null.
C24_DegradesToExtreme ==
    (op = "findMinimumWageIntersection" /\ Len(dataPoints) > 0) =>
        /\ (\A i \in Indices : NLess(ReferenceAt(i), NetAt(i))) =>
              /\ ret # Null
              /\ \E i \in Indices :
                    /\ IsIntersectionSample(ret, i)
                    /\ \A j \in Indices : NLeq(NetAt(i), NetAt(j))
        /\ (\A i \in Indices : NLess(NetAt(i), ReferenceAt(i))) =>
              /\ ret # Null
              /\ \E i \in Indices :
                    /\ IsIntersectionSample(ret, i)
                    /\ \A j \in Indices : NLeq(NetAt(j), NetAt(i))

\* C29: for a non-empty sample sequence ascending in grossIncome,
\* findMinimumWageEquivalentPoint returns a point whose income is a defined
\* number (the interpolation ratio has a non-zero denominator) between the
\* first and the last sample's grossIncome, also when two adjacent samples
\* both have netIncome equal to the reference.
C29_IncomeDefined ==
    (op = "findMinimumWageEquivalentPoint" /\ Len(dataPoints) > 0) =>
        /\ ret # Null
        /\ ret.income.den # NetZero
        /\ NLeq(NetZero, ret.income.num) /\ NLeq(ret.income.num, ret.income.den)
        /\ Min(ret.income.lo, ret.income.lo + ret.income.span) >= dataPoints[1].grossIncome
        /\ Max(ret.income.lo, ret.income.lo + ret.income.span)
              <= dataPoints[Len(dataPoints)].grossIncome

\* C30: if some adjacent pair has current.netIncome <= 0 < next.netIncome with
\* its interpolated crossing at 0.5 hours or more, findBreakEvenHours returns
\* a non-null point, even when an earlier pair crosses below 0.5 hours.
C30_LaterCrossingKept ==
    op = "findBreakEvenHours" =>
        ((\E i \in Pairs : UpCrossing(i) /\ ~InterpLess(CrossingHours(i), 5))
            => ret # Null)

(***************************************************************************)
(* Properties of the low-income offset and of the after-tax income         *)
(* (SpecTax).                                                              *)
(***************************************************************************)
\* C25: the low-income offset subtracted inside calculateIncomeTax never rises
\* with income: for two incomes i1 < i2 the offset at i1 is >= the offset at
\* i2 (no upward jump at 45000 in particular).
C25_OffsetDecays ==
    (op = "calculateIncomeTax" /\ prev.op = "calculateIncomeTax"
        /\ prev.income < income) =>
        calculateLowIncomeTaxOffset(prev.income) >= calculateLowIncomeTaxOffset(income)

\* C27: for every income >= 0, the cutoff income 66667 included,
\* calculateLowIncomeTaxOffset returns a value from 0 to 700 dollars
\* (700000 mills).
C27_OffsetRange ==
    (op = "calculateIncomeTax" /\ income >= 0) =>
        /\ calculateLowIncomeTaxOffset(income) >= 0
        /\ calculateLowIncomeTaxOffset(income) <= 700000

MLeq(a, b) == a.c < b.c \/ (a.c = b.c /\ a.f <= b.f)

\* C28: calculateAfterTaxIncome never falls as income rises: for two
\* non-negative incomes i1 < i2 the result at i1 is <= the result at i2; and
\* the result lies between 0 and the income.
C28_AfterTaxMonotone ==
    (op = "calculateAfterTaxIncome" /\ income >= 0) =>
        /\ MLeq(FromDollars(0), ret)
        /\ MLeq(ret, FromDollars(income))
        /\ (prev.op = "calculateAfterTaxIncome" /\ prev.income >= 0
               /\ prev.income < income) => MLeq(prev.ret, ret)

\* two calls one dollar apart across the levy threshold, the second one
\* paying tax and levy and still giving more
C28_Witness ==
    /\ op = "calculateAfterTaxIncome"
    /\ prev.op = "calculateAfterTaxIncome"
    /\ prev.income = SINGLE_THRESHOLD
    /\ income = SINGLE_THRESHOLD + 1
    /\ ret # FromDollars(income)
    /\ ret # prev.ret
    /\ MLeq(prev.ret, ret)

\* C26: for children with non-negative hoursPerDay, daysPerWeek and
\* hourlyRate, calculateTotalCosts yields 0 <= subsidyAmount <= totalCost and
\* outOfPocket >= 0 for every child, and 0 <= totalChildcareOutOfPocket <=
\* totalChildcareCost in aggregate.
C26_SubsidyWithinCost ==
    op = "calculateTotalCosts" =>
        /\ \A i \in 1..Len(ret.childDetails) :
              /\ 0 <= ret.childDetails[i].subsidyAmount
              /\ ret.childDetails[i].subsidyAmount <= ret.childDetails[i].totalCost
              /\ ret.childDetails[i].outOfPocket >= 0
        /\ 0 <= ret.totalChildcareOutOfPocket
        /\ ret.totalChildcareOutOfPocket <= ret.totalChildcareCost

\* a child whose hours are all subsidised, at a rate under the cap, next to a
\* child who attends no day
C26_Witness ==
    /\ op = "calculateTotalCosts"
    /\ Len(children) = 2
    /\ ret.childDetails[1].unsubsidisedHours = 0
    /\ children[1].hourlyRate <= ret.childDetails[1].hourlyRateCap
    /\ ret.childDetails[1].subsidyAmount > 0
    /\ ret.childDetails[1].subsidyAmount < ret.childDetails[1].totalCost
    /\ children[2].daysPerWeek = 0
    /\ ret.childDetails[2].subsidyAmount = 0
    /\ ret.totalChildcareOutOfPocket > 0

====
